---- MODULE Spec2Model ----
(***************************************************************************)
(* Reconciliation of asynchronously assigned EMR identifiers with locally  *)
(* captured patient submissions (monitor_patient_form.py, scraper.py).     *)
(*                                                                         *)
(* Every action is one run of a handler between two real suspension        *)
(* points of the asyncio event loop.  `await update_patient_emr_id(..)`    *)
(* and `await save_patient_data(..)` never suspend (their bodies contain   *)
(* no await), so they belong to the step of their caller.  The real        *)
(* suspension points are response.json(), page.evaluate() and              *)
(* asyncio.sleep().                                                        *)
(*                                                                         *)
(* Spec        monitor_patient_form.py: submissions, responses, wait       *)
(*             tasks and the DOM watcher in every interleaving.            *)
(* SpecTimed   monitor_patient_form.py with the wall clock.                *)
(* SpecScraper scraper.py: form submissions, captured responses and the    *)
(*             passes (scan, sweep, wait) of its main loop.                *)
(* SpecDb      monitor_patient_form.py with the patients table.            *)
(* SpecImport  save_to_db.py: imports of JSON files into the table.        *)
(* SpecClick   monitor_patient_form.py driven by clicks of the submit      *)
(*             button and the listeners they reach.                        *)
(* SpecLog     monitor_patient_form.py started on the log that earlier     *)
(*             sessions left.                                              *)
(* SpecApi     api.py: lookups of a patient by emr_id on a filled table.   *)
(* SpecExtract monitor_patient_form.py: the search of one response body.   *)
(* SpecFaults  monitor_patient_form.py: the watchers when their steps      *)
(*             raise.                                                      *)
(* SpecNormalize scraper.py: normalize_patient_data on one mapping and on  *)
(*             the record it returned.                                     *)
(* SpecDate    the two date normalizations on one date string.             *)
(* SpecMain, SpecMainFair  monitor_patient_form.py: main from the launch   *)
(*             of the browser to the end of the process.                   *)
(* SpecWait, SpecWaitFair  monitor_patient_form.py: the wait tasks, one    *)
(*             iteration of their polling loop at a time.                  *)
(* SpecSupervisor run_all.py: the supervisor, its two child processes and  *)
(*             the signals it gets.                                        *)
(***************************************************************************)
EXTENDS Integers, Sequences, FiniteSets, TLC

\* ------------------------------------------------------------------ bounds
\* Number of form submissions handled in one monitoring session.
MaxSubs == 2
\* Consecutive polls of one wait_for_emr_id task that find nothing and are
\* taken as one step; max_wait_time / poll_interval = 40 of them end the task.
PollsPerStep == 40

\* Responses captured by scraper.py in one session.
MaxResponses == 2
\* Entries that earlier sessions left in patient_data.json.
MaxPrior == 2
\* Last clock reading of a session, in seconds.
MaxTime == 124
\* Interrupt signals sent to one run of the monitor or of the supervisor.
MaxInterrupts == 2
\* Connection attempts of wait_for_api that fail before its time is up.
MaxProbes == 2
\* Submissions of a session whose wait tasks are followed poll by poll.
MaxWaiters == 1

\* ------------------------------------------------------- program constants
poll_interval == 3
max_wait_time == 120
emr_wait_min == 60
emr_wait_max == 90
check_interval == 2

\* ------------------------------------------------------------ input values
\* What dict.get returns for a key the dict does not have, and for a key
\* whose JSON value is null.
None == "None"

\* Identifiers the portal may show in a response body or in the DOM.
EmrIds == {"91", "92"}

\* Submitted forms (the fields the matcher and the merge read).
Forms ==
  { [legalFirstName |-> "John", legalLastName |-> "Doe", mobilePhone |-> "555"],
    [legalFirstName |-> "Jane", legalLastName |-> "Doe", mobilePhone |-> "555"],
    [legalFirstName |-> "",     legalLastName |-> "",    mobilePhone |-> ""] }

\* What handle_response extracts from one response body: the identifier, the
\* names found next to it, the phone of the booking object ("" when the body
\* has no 'data' object or no phone key, None when the phone is null) and
\* the booking id.
Identities ==
  { [first_name |-> "JOHN ", last_name |-> "Doe", phone |-> "(5)55"],
    [first_name |-> "JOHN ", last_name |-> "Doe", phone |-> ""],
    [first_name |-> "JOHN ", last_name |-> "",    phone |-> ""],
    [first_name |-> "",      last_name |-> "Doe", phone |-> ""],
    [first_name |-> "Bob",   last_name |-> "",    phone |-> "(5)55"],
    [first_name |-> "Bob",   last_name |-> "",    phone |-> ""],
    [first_name |-> "",      last_name |-> "",    phone |-> "(5)55"],
    [first_name |-> "",      last_name |-> "",    phone |-> ""],
    [first_name |-> "JOHN ", last_name |-> "Doe", phone |-> None],
    [first_name |-> "",      last_name |-> "",    phone |-> None] }

Candidates ==
  { [emr_id |-> e, first_name |-> p.first_name, last_name |-> p.last_name,
     phone |-> p.phone, booking_id |-> ""] : e \in EmrIds, p \in Identities }

\* Forms captured by scraper.py: the capture scripts set legalFirstName and
\* firstName together, or legalFirstName alone; they never set first_name.
ScraperForms ==
  { [legalFirstName |-> "John", firstName |-> "John", first_name |-> None,
     legalLastName |-> "Doe", lastName |-> "Doe"],
    [legalFirstName |-> "John", firstName |-> None, first_name |-> None,
     legalLastName |-> "Doe", lastName |-> None],
    [legalFirstName |-> None, firstName |-> None, first_name |-> None,
     legalLastName |-> None, lastName |-> None] }

\* Patient objects of the portal's API responses.
ApiPatients ==
  { [id |-> "p1", emr_id |-> "91", firstName |-> None, first_name |-> "John",
     lastName |-> None, last_name |-> "Doe", name |-> None],
    [id |-> "p2", emr_id |-> "92", firstName |-> "Jane", first_name |-> None,
     lastName |-> "Doe", last_name |-> None, name |-> None],
    [id |-> "p3", emr_id |-> "", firstName |-> "John", first_name |-> None,
     lastName |-> "Doe", last_name |-> None, name |-> None],
    [id |-> "p4", emr_id |-> "93", firstName |-> None, first_name |-> None,
     lastName |-> None, last_name |-> None, name |-> " "] }

\* The patient lists of the responses.
ApiBodies ==
  { <<p>> : p \in ApiPatients } \cup
  { <<p, q>> : p \in {x \in ApiPatients : x.id = "p1"},
               q \in {x \in ApiPatients : x.id = "p2"} }

\* Seconds between two readings of the wall clock that the model tells
\* apart; for scraper.py, between two passes of its main loop that find
\* something to do (a pass waits check_interval seconds).
ClockSteps == {30, 31}

\* -------------------------------------------------------- string functions
\* str.strip() on the strings of the model.
Strip(s) ==
  CASE s = "JOHN " -> "JOHN"
    [] s = "john " -> "john"
    [] OTHER       -> s

\* str.lower() on the strings of the model.
Lower(s) ==
  CASE s = "JOHN " -> "john "
    [] s = "JOHN"  -> "john"
    [] s = "John"  -> "john"
    [] s = "Jane"  -> "jane"
    [] s = "Bob"   -> "bob"
    [] s = "Doe"   -> "doe"
    [] OTHER       -> s

\* .replace('+','').replace(' ','').replace('-','').replace('(','').replace(')','')
PhoneNorm(s) ==
  CASE s = "(5)55" -> "555"
    [] OTHER       -> s

\* ------------------------------------------------------------------- state
VARIABLES
  recs,              \* the complete_data dicts, by submission number
  pending_patients,  \* list of submission numbers (references to the dicts)
  json_log,          \* contents of patient_data.json
  table,             \* rows of the patients table, in insertion order
  DB_AVAILABLE,      \* the database driver was imported and connects
  wait_pc,           \* per submission: position of its wait_for_emr_id task
  elapsed_time,      \* per submission: elapsed_time of its wait task
  dom_pc,            \* position of actively_check_dom_for_emr
  dom_cur,           \* the record whose page.evaluate() is in flight
  dom_todo,          \* rest of the snapshot list(pending_patients)
  now,               \* datetime.now(), in seconds
  monitoring_patients,     \* scraper.py: ordered dict, as a list of items
  processed_patient_ids,   \* scraper.py: set of patient ids
  api_responses,           \* scraper.py: the patient lists of the responses
  form_submission_tracked, \* scraper.py: set of submission keys
  patient_files,           \* scraper.py: the files written under data_dir
  submission_count,        \* scraper.py: submissions tracked so far
  clicks,            \* clicks of the submit button so far
  listener_calls,    \* calls of handlePatientSubmission still to be served
  last_captured,     \* monitor_form_submissions: << >> (None) or the one form captured last
  watchers,          \* the watchers that are still running
  errors,            \* the watchers whose except clause has swallowed an exception
  response_body,     \* handle_response: the parsed JSON body of a response
  extracted,         \* handle_response: what the search of the body gave
  api_request,       \* api.py: the emr_id of the last GET /patient/{emr_id}
  api_reply,         \* api.py: status and row of the answer to it
  api_open,          \* api.py: what the handler opened and has not closed
  norm_input,        \* scraper.py: the mapping handed to normalize_patient_data
  norm_output,       \* scraper.py: what normalize_patient_data gave for it
  date_fn,           \* which date normalization was applied last
  date_input,        \* the date string handed to it
  date_output,       \* the date string it gave
  main_pc,           \* main: the statement the main task is at
  browser,           \* main: the state of the browser session
  loops,             \* main: the state of every background task
  cancelling,        \* main: the tasks whose cancellation is requested
  exit_cause,        \* main: what made main leave its try block
  interrupts,        \* main: interrupt signals received so far
  polls,             \* per submission: calls of page.evaluate() by its wait task
  sup_pc,            \* run_all.py: the statement main is at
  wait_for_api_ready,\* run_all.py: WAIT_FOR_API
  api_process,       \* run_all.py: the variable holds the Popen object
  monitor_process,   \* run_all.py: the variable holds the Popen object
  api_child,         \* run_all.py: the state of the API server process
  monitor_child,     \* run_all.py: the state of the monitor process
  api_listening,     \* run_all.py: the API server accepts connections
  api_accepted,      \* run_all.py: wait_for_api got a connection
  probes,            \* run_all.py: failed connection attempts of wait_for_api
  handler_pc,        \* run_all.py: the statement signal_handler is at
  signals,           \* run_all.py: signals delivered so far
  sup_exit           \* run_all.py: what made the supervisor exit

monitor_vars == <<recs, pending_patients, wait_pc, elapsed_time,
                  dom_pc, dom_cur, dom_todo>>

scraper_vars == <<monitoring_patients, processed_patient_ids, api_responses,
                  form_submission_tracked, patient_files, submission_count>>

click_vars == <<clicks, listener_calls, last_captured>>

\* State of the parts of the program that the actions above leave alone.
extract_vars == <<response_body, extracted>>

api_vars == <<api_request, api_reply, api_open>>

norm_vars == <<norm_input, norm_output>>

date_vars == <<date_fn, date_input, date_output>>

main_vars == <<main_pc, browser, loops, cancelling, exit_cause, interrupts>>

poll_vars == <<polls>>

sup_vars == <<sup_pc, wait_for_api_ready, api_process, monitor_process,
              api_child, monitor_child, api_listening, api_accepted, probes,
              handler_pc, signals, sup_exit>>

aux_vars == <<watchers, errors, extract_vars, api_vars, norm_vars, date_vars,
              main_vars, poll_vars, sup_vars>>

vars == <<monitor_vars, scraper_vars, click_vars, aux_vars, json_log, table,
          DB_AVAILABLE, now>>

\* ------------------------------------------------------------ JSON values
\* A parsed JSON value: t is its Python type, s the text of a str or an int,
\* items the elements of a list or the (key, value) items of a dict in
\* their order.
JNull == [t |-> "null", s |-> "", items |-> << >>]
JStr(x) == [t |-> "str", s |-> x, items |-> << >>]
JInt(x) == [t |-> "int", s |-> x, items |-> << >>]
JList(xs) == [t |-> "list", s |-> "", items |-> xs]
JDict(kvs) == [t |-> "dict", s |-> "", items |-> kvs]
KV(key, value) == [k |-> key, v |-> value]

\* The outcome of the search of one body: no search yet, an identifier
\* handed to the matcher, none found, or an exception.
NotSearched == [outcome |-> "pending", emr_id |-> ""]
Found(e) == [outcome |-> "found", emr_id |-> e]
NotFound == [outcome |-> "none", emr_id |-> ""]
Raised == [outcome |-> "raised", emr_id |-> ""]

\* The answer of the lookup endpoint: the HTTP status and the number of the
\* row returned (0: no row, also before the first request).
Reply(st, j) == [status |-> st, row |-> j]
NoReply == Reply(0, 0)

\* The watchers setup_form_monitor starts: the response handler it
\* registers, the DOM polling loop and the submission polling loop.
Watchers == {"response", "dom", "poll"}

\* A date string, as the sequence of its tokens: a run of w digits of
\* value v, a separator character, or other text.  NoDate is the empty
\* string and also Python's None, which no caller tells apart from it.
Num(width, value) == [k |-> "num", v |-> value, w |-> width]
Sep(c) == [k |-> c, v |-> 0, w |-> 0]
Txt == [k |-> "txt", v |-> 0, w |-> 0]
NoDate == << >>

\* The eight fields normalize_patient_data returns.
Normalized(pid, sid, loc, first, last, dob, gender, room) ==
  [firstName |-> first, lastName |-> last, dob |-> dob, gender |-> gender,
   room |-> room, patientId |-> pid, solvId |-> sid, locationId |-> loc]
NoRecord == Normalized("", "", "", "", "", NoDate, "", "")

\* A mapping handed to normalize_patient_data: the eight keys and the name
\* keys 'name' and 'fullName' ('displayName' is read exactly as they are);
\* None is a key that is absent.
Mapping(rec, name, fullName) ==
  [firstName |-> rec.firstName, lastName |-> rec.lastName, dob |-> rec.dob,
   gender |-> rec.gender, room |-> rec.room, patientId |-> rec.patientId,
   solvId |-> rec.solvId, locationId |-> rec.locationId, name |-> name,
   fullName |-> fullName]
NoMapping == Mapping(NoRecord, None, None)

\* What a call of normalize_patient_data gave: nothing yet, a record, or
\* an exception.
NotNormalized == [value |-> NoRecord, outcome |-> "pending"]
Returned(rec) == [value |-> rec, outcome |-> "ok"]
Raises == [value |-> NoRecord, outcome |-> "raised"]

\* The background tasks of one session: the two polling loops
\* setup_form_monitor starts and the wait tasks of the submissions.  A
\* task is idle before create_task, then running, then done.
WaitTasks == {"wait_for_emr_id(1)", "wait_for_emr_id(2)"}
Tasks == {"monitor_form_submissions", "actively_check_dom_for_emr"} \cup WaitTasks
Running(tasks) == {l \in Tasks : tasks[l] = "running"}
Started(tasks, new) ==
  [l \in Tasks |-> IF l \in new /\ tasks[l] = "idle" THEN "running" ELSE tasks[l]]
Done(tasks, l) == [tasks EXCEPT ![l] = "done"]

\* The parts outside the reconciliation when the monitoring starts.
AuxInit ==
  /\ norm_input = NoMapping
  /\ norm_output = NotNormalized
  /\ date_fn = ""
  /\ date_input = NoDate
  /\ date_output = NoDate
  /\ main_pc = "launch"
  /\ browser = "none"
  /\ loops = [l \in Tasks |-> "idle"]
  /\ cancelling = {}
  /\ exit_cause = "none"
  /\ interrupts = 0
  /\ polls = [i \in 1..MaxSubs |-> 0]
  /\ sup_pc = "config"
  /\ wait_for_api_ready = TRUE
  /\ api_process = FALSE
  /\ monitor_process = FALSE
  /\ api_child = "none"
  /\ monitor_child = "none"
  /\ api_listening = FALSE
  /\ api_accepted = FALSE
  /\ probes = 0
  /\ handler_pc = "none"
  /\ signals = 0
  /\ sup_exit = "none"
  /\ last_captured = << >>
  /\ watchers = Watchers
  /\ errors = {}
  /\ response_body = JNull
  /\ extracted = NotSearched
  /\ api_request = ""
  /\ api_reply = NoReply
  /\ api_open = {}

\* The state when the monitoring starts, but for the database.
Boot ==
  /\ recs = << >>
  /\ pending_patients = << >>
  /\ json_log = << >>
  /\ table = << >>
  /\ wait_pc = << >>
  /\ elapsed_time = << >>
  /\ dom_pc = "sleep"
  /\ dom_cur = 0
  /\ dom_todo = << >>
  /\ now = 0
  /\ clicks = 0
  /\ listener_calls = << >>
  /\ AuxInit
  /\ monitoring_patients = << >>
  /\ processed_patient_ids = {}
  /\ api_responses = << >>
  /\ form_submission_tracked = {}
  /\ patient_files = {}
  /\ submission_count = 0

\* A session without the database: psycopg2 is not installed or the server
\* refuses the connection, save_patient_to_db returns False.
Init == Boot /\ DB_AVAILABLE = FALSE

\* A session with the database.
InitDb == Boot /\ DB_AVAILABLE = TRUE

\* ------------------------------------------------------------ list helpers
\* `for x in xs: if test(x): ...; break`: the index of the first TRUE of the
\* sequence of test results b, 0 when there is none.
FirstIndex(b) ==
  IF \E k \in 1..Len(b) : b[k]
    THEN CHOOSE k \in 1..Len(b) : b[k] /\ \A j \in 1..(k-1) : ~b[j]
    ELSE 0

\* `for x in reversed(xs): if test(x): ...; break`: the index of the last
\* TRUE of b, 0 when there is none.
LastIndex(b) ==
  IF \E k \in 1..Len(b) : b[k]
    THEN CHOOSE k \in 1..Len(b) : b[k] /\ \A j \in (k+1)..Len(b) : ~b[j]
    ELSE 0

\* s without its k-th element.
RemoveAt(s, k) == [j \in 1..(Len(s) - 1) |-> IF j < k THEN s[j] ELSE s[j + 1]]

InList(s, x) == \E k \in 1..Len(s) : s[k] = x

\* list.remove(x): drops the first element equal to x.  Two dicts of
\* pending_patients never compare equal (their captured_at differ), so
\* equality of dicts is equality of submission numbers.
\* A removal that also drops every dict that has an emr_id.
ListRemove_Bound(s, x) == SelectSeq(s, LAMBDA y : y # x /\ recs[y].emr_id = "")
ListRemove(s, x) == RemoveAt(s, FirstIndex([k \in 1..Len(s) |-> s[k] = x]))

\* ------------------------------------------------------- the JSON log
\* A submission whose write is left out.
save_patient_data_Skipped(lg, pd) == lg

\* A write that starts the log afresh with the dict.
save_patient_data_Fresh(lg, pd) == <<pd>>

\* save_patient_data: read the log, append the dict, stamp captured_at on it
\* (the appended element is the same dict), rewrite the log.
save_patient_data(lg, pd) == Append(lg, pd)

\* First loop of update_patient_emr_id: the entry with the dict's stripped
\* names and captured_at that has no emr_id yet.
OwnEntry(lg, pd) ==
  FirstIndex([k \in 1..Len(lg) |->
               /\ Strip(lg[k].legalFirstName) = Strip(pd.legalFirstName)
               /\ Strip(lg[k].legalLastName) = Strip(pd.legalLastName)
               /\ lg[k].emr_id = ""
               /\ lg[k].captured_at = pd.captured_at])

\* The first entry without emr_id, in place of the most recent one.
FallbackEntry_First(lg) == FirstIndex([k \in 1..Len(lg) |-> lg[k].emr_id = ""])

\* Second loop of update_patient_emr_id: the most recent entry without emr_id.
FallbackEntry(lg) == LastIndex([k \in 1..Len(lg) |-> lg[k].emr_id = ""])

\* The entry of the dict's captured_at, whether it has an emr_id or not.
MergeTarget_Overwrite(lg, pd) ==
  FirstIndex([k \in 1..Len(lg) |-> lg[k].captured_at = pd.captured_at])

\* The entry update_patient_emr_id writes to, 0 when it writes nothing.
MergeTarget(lg, pd) ==
  IF OwnEntry(lg, pd) # 0 THEN OwnEntry(lg, pd) ELSE FallbackEntry(lg)

\* update_patient_emr_id: the log after the call for dict pd.
update_patient_emr_id(lg, pd) ==
  LET k == MergeTarget(lg, pd)
  IN IF k = 0 THEN lg
     ELSE [lg EXCEPT ![k] = [@ EXCEPT !.emr_id = pd.emr_id]]

\* ------------------------------------------------------ the patients table
\* location_id of the session (the queue URL names one location).
location_id == "AXjwbE"

\* `x or None`, and the final pass that stores '' as NULL.
OrNone(x) == IF x = "" THEN None ELSE x

\* normalize_patient_record: the columns of the row for a dict.  A dict of a
\* captured form has no patientId / patient_id key.
normalize_patient_record(record) ==
  [patient_id       |-> IF "patient_id" \in DOMAIN record
                          THEN OrNone(record.patient_id) ELSE None,
   emr_id           |-> OrNone(record.emr_id),
   location_id      |-> location_id,
   legal_first_name |-> OrNone(record.legalFirstName),
   legal_last_name  |-> OrNone(record.legalLastName),
   captured_at      |-> record.captured_at]

\* The unique constraint that is the conflict target of the upsert: two rows
\* collide when patient_id, location_id and captured_at are equal and none
\* of them is NULL (in a unique constraint NULLs are distinct).
ConflictKey(a, b) ==
  /\ a.patient_id # None /\ a.location_id # None /\ a.captured_at # None
  /\ a.patient_id = b.patient_id
  /\ a.location_id = b.location_id
  /\ a.captured_at = b.captured_at

\* save_patient_to_db with on_conflict='update' (and insert_patients with it,
\* for one record): nothing without the database, else INSERT ... ON
\* CONFLICT (patient_id, location_id, captured_at) DO UPDATE SET every other
\* column to the incoming value.
save_patient_to_db(tbl, record) ==
  LET row == normalize_patient_record(record)
      k   == FirstIndex([j \in 1..Len(tbl) |-> ConflictKey(tbl[j], row)])
  IN IF ~DB_AVAILABLE THEN tbl
     ELSE IF k = 0 THEN Append(tbl, row) ELSE [tbl EXCEPT ![k] = row]

\* The table after update_patient_emr_id for dict pd: the dict is saved when
\* an entry of the log was updated.
MergeDb(tbl, lg, pd) ==
  IF MergeTarget(lg, pd) # 0 THEN save_patient_to_db(tbl, pd) ELSE tbl

\* ------------------------------------------------- handle_patient_submission
handle_patient_submission(form) ==
  LET n  == Len(recs) + 1
      pd == [legalFirstName |-> form.legalFirstName,
             legalLastName  |-> form.legalLastName,
             mobilePhone    |-> form.mobilePhone,
             emr_id         |-> "",
             booking_id     |-> "",
             captured_at    |-> <<now, n>>]
  IN /\ Len(recs) < MaxSubs
     /\ json_log' = save_patient_data(json_log, pd)
     /\ table' = save_patient_to_db(table, pd)
     /\ recs' = Append(recs, pd)
     /\ pending_patients' = Append(pending_patients, n)
     /\ wait_pc' = Append(wait_pc, "polling")
     /\ elapsed_time' = Append(elapsed_time, 0)
     /\ UNCHANGED <<DB_AVAILABLE, aux_vars, dom_pc, dom_cur, dom_todo, now, scraper_vars>>

\* ----------------------------------------------------------- wait_for_emr_id
\* What the page.evaluate() of wait_for_emr_id can return for a dict: the
\* script needs both names to be non-empty to return an identifier.
WaitDomResults(pd) ==
  IF Strip(pd.legalFirstName) # "" /\ Strip(pd.legalLastName) # ""
    THEN EmrIds \cup {""}
    ELSE {""}

\* The polling loop of the wait task of submission i up to its next change:
\* an iteration whose page.evaluate() returns the identifier r, or
\* PollsPerStep iterations that return nothing ("": null or a raised error).
wait_for_emr_id(i, r) ==
  /\ i \in 1..Len(recs)
  /\ wait_pc[i] = "polling"
  /\ r \in WaitDomResults(recs[i])
  /\ IF r # ""
       THEN LET pd == [recs[i] EXCEPT !.emr_id = r]
            IN /\ recs' = [recs EXCEPT ![i] = pd]
               /\ json_log' = update_patient_emr_id(json_log, pd)
               /\ table' = MergeDb(table, json_log, pd)
               /\ wait_pc' = [wait_pc EXCEPT ![i] = "found"]
               /\ elapsed_time' = elapsed_time
       ELSE /\ elapsed_time' = [elapsed_time EXCEPT ![i] = @ + PollsPerStep * poll_interval]
            /\ wait_pc' = [wait_pc EXCEPT ![i] =
                             IF elapsed_time[i] + PollsPerStep * poll_interval < max_wait_time
                               THEN "polling" ELSE "timeout"]
            /\ UNCHANGED <<recs, json_log, table>>
  /\ UNCHANGED <<DB_AVAILABLE, aux_vars, click_vars, pending_patients, dom_pc, dom_cur, dom_todo, now, scraper_vars>>

\* ----------------------------------------------------------- handle_response
\* `if not p.get('emr_id')`
IsUnbound(i) == recs[i].emr_id = ""

\* len([p for p in pending_patients if not p.get('emr_id')])
UnboundCount ==
  Cardinality({k \in 1..Len(pending_patients) : IsUnbound(pending_patients[k])})

\* name_match of handle_response for candidate c and dict pd.
name_match(c, pd) ==
  LET pending_first == Strip(pd.legalFirstName)
      pending_last  == Strip(pd.legalLastName)
  IN IF c.first_name # "" /\ c.last_name # ""
       THEN /\ Lower(pending_first) = Strip(Lower(c.first_name))
            /\ Lower(pending_last) = Strip(Lower(c.last_name))
       ELSE IF c.first_name # ""
         THEN Lower(pending_first) = Strip(Lower(c.first_name))
         ELSE IF c.last_name # ""
           THEN Lower(pending_last) = Strip(Lower(c.last_name))
           ELSE FALSE

\* booking_data.get('phone', '').strip() raises AttributeError when the phone
\* is null: the first loop reaches that line at its first dict without
\* emr_id, and the handler's `except: pass` ends the handling of the response.
PhoneRaises(c) == c.phone = None /\ UnboundCount >= 1

\* phone_match of handle_response for candidate c and dict pd.
phone_match(c, pd) ==
  LET api_phone     == Strip(c.phone)
      pending_phone == Strip(pd.mobilePhone)
  IN /\ c.phone # None
     /\ api_phone # ""
     /\ pending_phone # ""
     /\ PhoneNorm(api_phone) # ""
     /\ PhoneNorm(pending_phone) # ""
     /\ PhoneNorm(api_phone) = PhoneNorm(pending_phone)

\* final_match before the single-pending rule.
final_match(c, pd) ==
  name_match(c, pd) \/ (phone_match(c, pd) /\ (c.first_name # "" \/ c.last_name # ""))

\* final_match after the single-pending rule.
FinalMatch(c, i) ==
  final_match(c, recs[i]) \/ UnboundCount = 1

\* The rule by which the first loop accepts dict i.
RuleOf(c, i) ==
  IF name_match(c, recs[i]) THEN "name"
  ELSE IF final_match(c, recs[i]) THEN "phone"
  ELSE "singleton"

\* The record the first loop of handle_response binds, 0 when it binds none.
FirstLoopPick(c) ==
  LET k == FirstIndex([m \in 1..Len(pending_patients) |->
                         /\ IsUnbound(pending_patients[m])
                         /\ FinalMatch(c, pending_patients[m])])
  IN IF k = 0 THEN 0 ELSE pending_patients[k]

\* The second loop without its `if not pending.get('emr_id')`.
MostRecentPick_Unguarded ==
  IF Len(pending_patients) = 0 THEN 0
  ELSE pending_patients[Len(pending_patients)]

\* The record the second loop binds: the last pending one without emr_id.
MostRecentPick ==
  LET k == LastIndex([m \in 1..Len(pending_patients) |->
                        IsUnbound(pending_patients[m])])
  IN IF k = 0 THEN 0 ELSE pending_patients[k]

\* The record handle_response binds for candidate c, 0 when it binds none.
MatchPick(c) ==
  IF PhoneRaises(c) THEN 0
  ELSE IF FirstLoopPick(c) # 0 THEN FirstLoopPick(c) ELSE MostRecentPick

\* The rule by which MatchPick(c) is bound.
MatchRule(c) ==
  IF PhoneRaises(c) THEN ""
  ELSE IF FirstLoopPick(c) # 0 THEN RuleOf(c, FirstLoopPick(c))
  ELSE IF MostRecentPick # 0 THEN "most_recent"
  ELSE ""

\* handle_response from the return of response.json() on, for a body from
\* which candidate c was extracted.
handle_response(c) ==
  LET i == MatchPick(c)
  IN /\ c \in Candidates
     /\ IF i = 0
          THEN UNCHANGED <<recs, json_log, table, pending_patients>>
          ELSE LET pd == [recs[i] EXCEPT
                            !.emr_id = c.emr_id,
                            !.booking_id = IF c.booking_id # "" /\ FirstLoopPick(c) # 0
                                             THEN c.booking_id ELSE @]
               IN /\ recs' = [recs EXCEPT ![i] = pd]
                  /\ json_log' = update_patient_emr_id(json_log, pd)
                  /\ table' = MergeDb(table, json_log, pd)
                  /\ pending_patients' = ListRemove(pending_patients, i)
     /\ UNCHANGED <<DB_AVAILABLE, aux_vars, click_vars, wait_pc, elapsed_time, dom_pc, dom_cur, dom_todo, now, scraper_vars>>

\* ------------------------------------------------ actively_check_dom_for_emr
\* The dicts the loop stops at: no emr_id yet and at least one name.
DomEligible(pd) ==
  /\ pd.emr_id = ""
  /\ ~(Strip(pd.legalFirstName) = "" /\ Strip(pd.legalLastName) = "")

\* Walks on through the rest of the snapshot to the next page.evaluate(), or
\* to the sleep at the top of the loop when the snapshot is used up.  rs is
\* the dicts as they are when the walk resumes.
DomAdvance(todo, rs) ==
  LET k == FirstIndex([m \in 1..Len(todo) |-> DomEligible(rs[todo[m]])])
  IN IF k = 0
       THEN /\ dom_pc' = "sleep"
            /\ dom_cur' = 0
            /\ dom_todo' = << >>
       ELSE /\ dom_pc' = "eval"
            /\ dom_cur' = todo[k]
            /\ dom_todo' = SubSeq(todo, k + 1, Len(todo))

\* The sleep ends with records pending: snapshot list(pending_patients).
dom_wake ==
  /\ dom_pc = "sleep"
  /\ pending_patients # << >>
  /\ DomAdvance(pending_patients, recs)
  /\ UNCHANGED <<DB_AVAILABLE, aux_vars, click_vars, recs, pending_patients, json_log, table, wait_pc, elapsed_time, now,
                 scraper_vars>>

\* page.evaluate() for dom_cur returns r ("" for null).
dom_eval(r) ==
  /\ dom_pc = "eval"
  /\ r \in EmrIds \cup {""}
  /\ IF r = ""
       THEN /\ DomAdvance(dom_todo, recs)
            /\ UNCHANGED <<recs, pending_patients, json_log, table>>
       ELSE LET pd == [recs[dom_cur] EXCEPT !.emr_id = r]
                rs == [recs EXCEPT ![dom_cur] = pd]
            IN /\ recs' = rs
               /\ json_log' = update_patient_emr_id(json_log, pd)
               /\ table' = MergeDb(table, json_log, pd)
               /\ IF InList(pending_patients, dom_cur)
                    THEN /\ pending_patients' = ListRemove(pending_patients, dom_cur)
                         /\ DomAdvance(dom_todo, rs)
                    ELSE \* list.remove raises ValueError: back to the sleep
                         /\ pending_patients' = pending_patients
                         /\ dom_pc' = "sleep"
                         /\ dom_cur' = 0
                         /\ dom_todo' = << >>
  /\ UNCHANGED <<DB_AVAILABLE, aux_vars, click_vars, wait_pc, elapsed_time, now, scraper_vars>>

\* page.evaluate() for dom_cur raises: the except clause, back to the sleep.
dom_eval_error ==
  /\ dom_pc = "eval"
  /\ dom_pc' = "sleep"
  /\ dom_cur' = 0
  /\ dom_todo' = << >>
  /\ UNCHANGED <<DB_AVAILABLE, aux_vars, click_vars, recs, pending_patients, json_log, table, wait_pc, elapsed_time, now,
                 scraper_vars>>

\* ------------------------------------------------------------ specification
\* One call of the exposed function handlePatientSubmission.
Submit == \E form \in Forms : handle_patient_submission(form) /\ UNCHANGED click_vars
Response == \E c \in Candidates : handle_response(c)
WaitPoll == \E i \in 1..MaxSubs, r \in EmrIds \cup {""} : wait_for_emr_id(i, r)
DomWake == dom_wake
DomEval == \E r \in EmrIds \cup {""} : dom_eval(r)
DomEvalError == dom_eval_error

Next ==
  \/ Submit
  \/ Response
  \/ WaitPoll
  \/ DomWake
  \/ DomEval
  \/ DomEvalError

\* The monitor, whatever the wall clock reads: no step of it reads the clock
\* except to stamp captured_at, and the wait task counts its own sleeps.
Spec == Init /\ [][Next]_vars

TypeOK ==
  /\ Len(recs) <= MaxSubs
  /\ \A k \in 1..Len(pending_patients) : pending_patients[k] \in 1..Len(recs)
  /\ Len(json_log) = Len(recs)

\* ------------------------------------------------------------ the wall clock
\* d seconds pass (the readings of datetime.now() grow).
clock_advance(d) ==
  /\ d \in ClockSteps
  /\ now + d <= MaxTime
  /\ now' = now + d
  /\ UNCHANGED <<DB_AVAILABLE, aux_vars, click_vars, monitor_vars, scraper_vars, json_log, table>>

Tick == \E d \in ClockSteps : clock_advance(d)

\* The monitor with the wall clock: submissions and responses at any time.
NextTimed ==
  \/ Tick
  \/ Submit
  \/ Response

SpecTimed == Init /\ [][NextTimed]_vars

\* ------------------------------------------------------- with the database
\* Records of the JSON files given to save_to_db.py: two patients, two
\* capture times, with and without an identifier.
DbRecords ==
  { [patient_id |-> p, legalFirstName |-> "John", legalLastName |-> "Doe",
     emr_id |-> e, captured_at |-> <<t, 0>>] :
      p \in {"p1", "p2"}, t \in {0, 1}, e \in EmrIds \cup {""} }

\* save_to_db.py --on-conflict update, for a file with the one record r.
insert_patients(r) ==
  /\ r \in DbRecords
  /\ table' = save_patient_to_db(table, r)
  /\ UNCHANGED <<DB_AVAILABLE, aux_vars, click_vars, monitor_vars, scraper_vars, json_log, now>>

DbImport == \E r \in DbRecords : insert_patients(r)

\* The monitor with the database.
NextDb ==
  \/ Submit
  \/ Response
  \/ WaitPoll

SpecDb == InitDb /\ [][NextDb]_vars

\* Imports of JSON files into the database.
SpecImport == InitDb /\ [][DbImport]_vars

\* ------------------------------------------------ a log of earlier sessions
\* patient_data.json as earlier sessions can leave it: k entries of
\* submissions whose wait ended without an identifier.
PriorLog(k) ==
  [j \in 1..k |->
     [legalFirstName |-> "John", legalLastName |-> "Doe", mobilePhone |-> "555",
      emr_id |-> "", booking_id |-> "", captured_at |-> <<0 - 1, j>>]]

\* The monitoring starts with such a file in place; save_patient_data and
\* update_patient_emr_id read it.
InitLog ==
  /\ DB_AVAILABLE = FALSE
  /\ \E k \in 0..MaxPrior :
       /\ json_log = PriorLog(k)
       /\ recs = << >>
       /\ pending_patients = << >>
       /\ table = << >>
       /\ wait_pc = << >>
       /\ elapsed_time = << >>
       /\ dom_pc = "sleep"
       /\ dom_cur = 0
       /\ dom_todo = << >>
       /\ now = 0
       /\ clicks = 0
       /\ listener_calls = << >>
       /\ AuxInit
       /\ monitoring_patients = << >>
       /\ processed_patient_ids = {}
       /\ api_responses = << >>
       /\ form_submission_tracked = {}
       /\ patient_files = {}
       /\ submission_count = 0

NextLog ==
  \/ Submit
  \/ Response
  \/ WaitPoll

SpecLog == InitLog /\ [][NextLog]_vars

\* ------------------------------------------------------ the lookup endpoint
\* created_at of row j of the table: set when the row is inserted and left
\* alone by the upsert; the rows of the model are in insertion order.
created_at(tbl, j) == j

\* The emr_id values of the requests: the identifiers and one that no
\* record has.
RequestIds == EmrIds \cup {"93"}

\* Where a request can fail: nowhere, in psycopg2.connect, in conn.cursor,
\* in cursor.execute.
Faults == {"none", "connect", "cursor", "execute"}

\* As SelectPatient, with the rows in ascending order of created_at.
SelectPatient_Oldest(tbl, emr_id) ==
  LET hit == {j \in 1..Len(tbl) : tbl[j].emr_id = emr_id}
  IN IF hit = {} THEN 0
     ELSE CHOOSE j \in hit :
            \A k \in hit : created_at(tbl, j) <= created_at(tbl, k)

\* SELECT .. WHERE emr_id = %s ORDER BY created_at DESC LIMIT 1: the number
\* of the row, 0 when the result is empty.  A NULL emr_id equals nothing.
SelectPatient(tbl, emr_id) ==
  LET hit == {j \in 1..Len(tbl) : tbl[j].emr_id = emr_id}
  IN IF hit = {} THEN 0
     ELSE CHOOSE j \in hit :
            \A k \in hit : created_at(tbl, j) >= created_at(tbl, k)

\* As HandlerStatus, without the clause `except HTTPException: raise`: the
\* generic clause turns every exception of the try block into a 500.
HandlerStatus_Generic(raised) == IF raised = 0 THEN 200 ELSE 500

\* The status with which get_patient_by_emr_id ends when its try block has
\* raised `raised`: 0 for no exception, 404 and 503 for the HTTPException
\* with that status, 500 for psycopg2.Error or any other exception.
HandlerStatus(raised) ==
  IF raised = 0 THEN 200
  ELSE IF raised \in {404, 503} THEN raised
  ELSE 500

\* The finally clause: closes the cursor and the connection that were
\* opened; what stays open after it.
Finally(opened) ==
  (opened \ (IF "cursor" \in opened THEN {"cursor"} ELSE {}))
    \ (IF "conn" \in opened THEN {"conn"} ELSE {})

\* GET /patient/{emr_id} with the fault f.
get_patient_by_emr_id(emr_id, f) ==
  LET opened == CASE f = "connect" -> {}
                  [] f = "cursor"  -> {"conn"}
                  [] OTHER         -> {"conn", "cursor"}
      j      == IF f = "none" THEN SelectPatient(table, emr_id) ELSE 0
      raised == CASE f = "connect" -> 503
                  [] f = "cursor"  -> 500
                  [] f = "execute" -> 500
                  [] OTHER         -> IF j = 0 THEN 404 ELSE 0
  IN /\ emr_id \in RequestIds
     /\ f \in Faults
     /\ api_request' = emr_id
     /\ api_reply' = Reply(HandlerStatus(raised), j)
     /\ api_open' = Finally(opened)
     /\ UNCHANGED <<DB_AVAILABLE, poll_vars, sup_vars, norm_vars, date_vars, main_vars, watchers, errors, extract_vars, monitor_vars, scraper_vars,
                    click_vars, json_log, table, now>>

Lookup == \E emr_id \in RequestIds, f \in Faults : get_patient_by_emr_id(emr_id, f)

\* Imports into the table and lookups, in any order.
NextApi ==
  \/ DbImport
  \/ Lookup

SpecApi == InitDb /\ [][NextApi]_vars

\* ------------------------------------------- the search of a response body
\* Scalars of the bodies.
Leaves == {JStr("91"), JStr("92"), JStr(""), JInt("7"), JInt("0"), JNull}

\* A patient-like object with one field.
Inner == {JDict(<<KV(k, v)>>) : k \in {"emr_id", "EMR", "name"}, v \in Leaves}

\* An object that carries an identifier.
EmrInner == {JDict(<<KV("emr_id", JStr(e))>>) : e \in EmrIds}

\* Lists of such objects.
Lists ==
  {JList(<<a>>) : a \in EmrInner} \cup {JList(<<a, b>>) : a, b \in EmrInner}

\* Bodies of relevant responses: objects with two keys, the first of which
\* may be 'data'; booking objects with the two known nested shapes; lists.
Bodies ==
  {JDict(<<KV(k1, v1), KV(k2, v2)>>) :
      k1 \in {"data", "result"}, v1 \in Leaves \cup Inner \cup Lists,
      k2 \in {"emr_id", "meta"}, v2 \in Leaves \cup EmrInner}
  \cup
  {JDict(<<KV("data",
      JDict(<<KV("integration_status", JList(<<JDict(<<KV("emr_id", v)>>)>>)),
              KV("patient_match_details",
                 JDict(<<KV("external_user_profile_id", w)>>))>>))>>) :
      v, w \in Leaves}
  \cup Lists

\* `"emr" in str(key).lower()` for the keys of the bodies.
KeyHasEmr(key) == key \in {"emr_id", "EMR"}

\* bool(value) for a JSON value.
JTruthy(x) ==
  CASE x.t = "str"  -> x.s # ""
    [] x.t = "int"  -> x.s # "0"
    [] x.t = "null" -> FALSE
    [] OTHER        -> x.items # << >>

\* dict.get(key, default)
JGet(d, key, default) ==
  LET n == FirstIndex([j \in 1..Len(d.items) |-> d.items[j].k = key])
  IN IF n = 0 THEN default ELSE d.items[n].v

\* find_emr_id(data) with the nonlocal emr_id as argument and result: the
\* `return` after a hit leaves only the call it is in, the loops of the
\* callers go on with the next key or item.
RECURSIVE find_emr_id(_, _)
RECURSIVE find_in_items(_, _, _)
RECURSIVE find_in_list(_, _, _)
find_emr_id(data, emr_id) ==
  IF data.t = "dict" THEN find_in_items(data.items, 1, emr_id)
  ELSE IF data.t = "list" THEN find_in_list(data.items, 1, emr_id)
  ELSE emr_id

\* The loop `for key, value in data.items()` of find_emr_id from item n on.
find_in_items(items, n, emr_id) ==
  IF n > Len(items) THEN emr_id
  ELSE LET key == items[n].k
           value == items[n].v
       IN IF /\ KeyHasEmr(key) /\ value.t \in {"str", "int"}
             /\ JTruthy(value) /\ Strip(value.s) # ""
            THEN Strip(value.s)
            ELSE IF value.t \in {"dict", "list"}
              THEN find_in_items(items, n + 1, find_emr_id(value, emr_id))
              ELSE find_in_items(items, n + 1, emr_id)

\* The loop `for item in data` of find_emr_id from item n on.
find_in_list(items, n, emr_id) ==
  IF n > Len(items) THEN emr_id
  ELSE find_in_list(items, n + 1, find_emr_id(items[n], emr_id))

\* Method 1: the first truthy emr_id of the dicts of integration_status.
IntegrationEmr(booking_data) ==
  LET st == JGet(booking_data, "integration_status", JList(<< >>))
      n  == IF st.t = "list"
              THEN FirstIndex([j \in 1..Len(st.items) |->
                     /\ st.items[j].t = "dict"
                     /\ JTruthy(JGet(st.items[j], "emr_id", JNull))])
              ELSE 0
  IN IF n = 0 THEN "" ELSE Strip(JGet(st.items[n], "emr_id", JNull).s)

\* Method 2: external_user_profile_id of patient_match_details.
MatchDetailsEmr(booking_data) ==
  LET pm == JGet(booking_data, "patient_match_details", JDict(<< >>))
      e  == IF pm.t = "dict" THEN JGet(pm, "external_user_profile_id", JNull)
            ELSE JNull
  IN IF JTruthy(e) THEN Strip(e.s) ELSE ""

\* The identifier the two known shapes give, "" when they give none.
BookingEmr(body) ==
  IF body.t = "dict" /\ JGet(body, "data", JNull) # JNull
    THEN LET bd == JGet(body, "data", JNull)
         IN IF IntegrationEmr(bd) # "" THEN IntegrationEmr(bd)
            ELSE MatchDetailsEmr(bd)
    ELSE ""

\* `booking_data.get(..)` on the value of 'data' raises when that value is
\* not a dict.
DataRaises(body) ==
  /\ body.t = "dict"
  /\ \E j \in 1..Len(body.items) :
       body.items[j].k = "data" /\ body.items[j].v.t # "dict"

\* handle_response from the parsed body to `if emr_id:`.
ExtractEmr(body) ==
  IF DataRaises(body) THEN Raised
  ELSE LET e == IF BookingEmr(body) # "" THEN BookingEmr(body)
                ELSE find_emr_id(body, "")
       IN IF e # "" THEN Found(e) ELSE NotFound

\* response.json() returns the body.
response_json(body) ==
  /\ body \in Bodies
  /\ extracted = NotSearched
  /\ response_body = JNull
  /\ response_body' = body
  /\ extracted' = extracted
  /\ UNCHANGED <<DB_AVAILABLE, poll_vars, sup_vars, norm_vars, date_vars, main_vars, watchers, errors, api_vars, monitor_vars, scraper_vars,
                 click_vars, json_log, table, now>>

\* The body is searched for an identifier.
search_body ==
  /\ response_body # JNull
  /\ extracted = NotSearched
  /\ extracted' = ExtractEmr(response_body)
  /\ response_body' = response_body
  /\ UNCHANGED <<DB_AVAILABLE, poll_vars, sup_vars, norm_vars, date_vars, main_vars, watchers, errors, api_vars, monitor_vars, scraper_vars,
                 click_vars, json_log, table, now>>

ResponseJson == \E body \in Bodies : response_json(body)
SearchBody == search_body

NextExtract ==
  \/ ResponseJson
  \/ SearchBody

SpecExtract == Init /\ [][NextExtract]_vars

\* ------------------------------------------------- failures of the watchers
\* As response_error, but with the exception leaving the handler for good.
response_error_Fatal ==
  /\ "response" \in watchers
  /\ errors' = errors \cup {"response"}
  /\ watchers' = watchers \ {"response"}
  /\ UNCHANGED <<DB_AVAILABLE, poll_vars, sup_vars, norm_vars, date_vars, main_vars, extract_vars, api_vars, monitor_vars, scraper_vars,
                 click_vars, json_log, table, now>>

\* handle_response for a response whose handling raises before a candidate
\* is extracted (response.json() fails on a non-JSON body, a method is
\* called on a value of an unexpected type): the except clauses of the
\* handler swallow the exception, the registration page.on stays.
response_error ==
  /\ "response" \in watchers
  /\ errors' = errors \cup {"response"}
  /\ watchers' = watchers
  /\ UNCHANGED <<DB_AVAILABLE, poll_vars, sup_vars, norm_vars, date_vars, main_vars, extract_vars, api_vars, monitor_vars, scraper_vars,
                 click_vars, json_log, table, now>>

\* handle_response as long as the handler is registered.
watched_response(c) ==
  /\ "response" \in watchers
  /\ handle_response(c)

\* `any(v and v.strip() for v in form_data.values() if v)`
AnyField(form) ==
  \/ Strip(form.legalFirstName) # ""
  \/ Strip(form.legalLastName) # ""
  \/ Strip(form.mobilePhone) # ""

\* One iteration of monitor_form_submissions that finds the modal visible
\* with the form `form` and the submit button in its submitting state.
monitor_form_submissions(form) ==
  /\ "poll" \in watchers
  /\ form \in Forms
  /\ AnyField(form)
  /\ <<form>> # last_captured
  /\ last_captured' = <<form>>
  /\ handle_patient_submission(form)
  /\ UNCHANGED <<clicks, listener_calls>>

\* One iteration of monitor_form_submissions in which page.evaluate() or
\* capture_form_data raises: `except Exception: pass`, the loop goes on.
monitor_form_submissions_error ==
  /\ "poll" \in watchers
  /\ errors' = errors \cup {"poll"}
  /\ watchers' = watchers
  /\ UNCHANGED <<DB_AVAILABLE, poll_vars, sup_vars, norm_vars, date_vars, main_vars, extract_vars, api_vars, monitor_vars, scraper_vars,
                 click_vars, json_log, table, now>>

\* The iterations of actively_check_dom_for_emr as long as the loop runs.
WatchedDom ==
  /\ "dom" \in watchers
  /\ (DomWake \/ DomEval \/ DomEvalError)

WatchedResponse == \E c \in Candidates : watched_response(c)
ResponseError == response_error
PollSubmission == \E form \in Forms : monitor_form_submissions(form)
PollError == monitor_form_submissions_error

\* The monitor with the failures of its watchers.
NextFaults ==
  \/ WatchedResponse
  \/ ResponseError
  \/ PollSubmission
  \/ PollError
  \/ WatchedDom

SpecFaults == Init /\ [][NextFaults]_vars

\* ------------------------------------------------- the submit button's listeners
\* The listeners that setupButtonListener registers on the submit button, in
\* the order in which one click reaches them: mousedown (capture), click
\* (capture), click.
ButtonListeners == <<"mousedown", "click_capture", "click">>

\* One click of the submit button showing `form`.  Each listener of the
\* button runs captureAndSend, which calls handlePatientSubmission with the
\* captured form; when the button submits a form element of the modal, the
\* document's submit listener calls it once more.
click(form, in_form) ==
  LET k == Len(ButtonListeners) + (IF in_form THEN 1 ELSE 0)
  IN /\ form \in Forms
     /\ clicks < MaxSubs
     /\ clicks' = clicks + 1
     /\ listener_calls' = listener_calls \o [j \in 1..k |-> form]
     /\ last_captured' = last_captured
     /\ UNCHANGED <<DB_AVAILABLE, aux_vars, monitor_vars, scraper_vars, json_log, table, now>>

\* The exposed function serves the oldest call.
captureAndSend ==
  /\ listener_calls # << >>
  /\ handle_patient_submission(Head(listener_calls))
  /\ listener_calls' = Tail(listener_calls)
  /\ UNCHANGED <<clicks, last_captured>>

Click == \E form \in Forms, in_form \in BOOLEAN : click(form, in_form)
CaptureAndSend == captureAndSend

\* The monitor driven by clicks of the submit button.
NextClick ==
  \/ Click
  \/ CaptureAndSend
  \/ Response

SpecClick == Init /\ [][NextClick]_vars

\* ------------------------------------------------------------ Python values
\* Python truth value of a dict.get result.
Truthy(x) == x # None /\ x # ""

\* `a or b` for two dict.get results with default ''.
OrElse(a, b) == IF Truthy(a) THEN a ELSE IF b = None THEN "" ELSE b

\* ------------------------------------------------------ date normalization
\* The digit runs and separators the date strings are made of.
Sp == Sep(" ")
NumTokens == {Num(4, 1990), Num(4, 2000), Num(2, 1), Num(2, 2), Num(1, 5),
              Num(2, 13), Num(2, 15), Num(2, 29), Num(2, 90)}
SepTokens == {Sep("/"), Sep("-")}

\* The date strings handed to the normalizations: three digit runs with two
\* separators, bare or with a blank before or after, the empty string, a
\* blank and a word.
BareDates ==
  {<<a, s1, b, s2, c>> : a \in NumTokens, s1 \in SepTokens, b \in NumTokens,
                         s2 \in SepTokens, c \in NumTokens}
DateStrings ==
  BareDates \cup {<<Sp>> \o d : d \in BareDates} \cup {d \o <<Sp>> : d \in BareDates}
    \cup {NoDate, <<Sp>>, <<Txt>>}

\* str.strip(): the string without the blanks at its ends.
RECURSIVE StripDate(_)
StripDate(s) ==
  IF s = << >> THEN s
  ELSE IF Head(s) = Sp THEN StripDate(Tail(s))
  ELSE IF s[Len(s)] = Sp THEN StripDate(SubSeq(s, 1, Len(s) - 1))
  ELSE s

IsLeap(y) == (y % 4 = 0 /\ y % 100 # 0) \/ y % 400 = 0
DaysIn(m, y) ==
  CASE m \in {4, 6, 9, 11} -> 30
    [] m = 2               -> IF IsLeap(y) THEN 29 ELSE 28
    [] OTHER               -> 31

\* The formats normalize_date tries, in its order: the directives of the
\* three digit runs and the separator between them.
formats ==
  << [fields |-> <<"Y", "m", "d">>, sep |-> "-"],
     [fields |-> <<"m", "d", "Y">>, sep |-> "/"],
     [fields |-> <<"m", "d", "Y">>, sep |-> "-"],
     [fields |-> <<"d", "m", "Y">>, sep |-> "/"],
     [fields |-> <<"d", "m", "Y">>, sep |-> "-"] >>

\* A strptime directive matches a digit run: %Y four digits, %m a month and
\* %d a day of one or two digits.
Directive(tok, f) ==
  /\ tok.k = "num"
  /\ CASE f = "Y" -> tok.w = 4 /\ tok.v >= 1
       [] f = "m" -> tok.w \in 1..2 /\ tok.v \in 1..12
       [] OTHER   -> tok.w \in 1..2 /\ tok.v \in 1..31

\* The digit run of the string that a format reads as directive f.
FieldOf(s, fmt, f) ==
  s[2 * (CHOOSE i \in 1..3 : fmt.fields[i] = f) - 1]

\* datetime.strptime(s, fmt): the date, or ok = FALSE for ValueError.
NoParse == [ok |-> FALSE, y |-> 0, m |-> 0, d |-> 0]
strptime(s, fmt) ==
  IF /\ Len(s) = 5
     /\ s[2] = Sep(fmt.sep)
     /\ s[4] = Sep(fmt.sep)
     /\ \A i \in 1..3 : Directive(s[2 * i - 1], fmt.fields[i])
     /\ FieldOf(s, fmt, "d").v <= DaysIn(FieldOf(s, fmt, "m").v, FieldOf(s, fmt, "Y").v)
  THEN [ok |-> TRUE, y |-> FieldOf(s, fmt, "Y").v, m |-> FieldOf(s, fmt, "m").v,
        d |-> FieldOf(s, fmt, "d").v]
  ELSE NoParse

\* dt.strftime('%Y-%m-%d')
strftime(dt) == <<Num(4, dt.y), Sep("-"), Num(2, dt.m), Sep("-"), Num(2, dt.d)>>

\* The loop over the formats, from format i on.
RECURSIVE try_formats(_, _)
try_formats(s, i) ==
  IF i > Len(formats) THEN NoDate
  ELSE IF strptime(s, formats[i]).ok THEN strftime(strptime(s, formats[i]))
  ELSE try_formats(s, i + 1)

normalize_date(date_str) ==
  IF date_str = NoDate \/ StripDate(date_str) = NoDate THEN NoDate
  ELSE try_formats(StripDate(date_str), 1)

\* scraper.py: the date of birth as normalize_patient_data rewrites it.
\* re.match accepts one or two digits, a separator, one or two digits, a
\* separator and two digits or more at the start of the string; re.split
\* must give three parts; a last part of two characters gets '20' before it.
IsSep(tok) == tok \in SepTokens
MatchesDobPattern(s) ==
  /\ Len(s) >= 5
  /\ s[1].k = "num" /\ s[1].w \in 1..2
  /\ IsSep(s[2])
  /\ s[3].k = "num" /\ s[3].w \in 1..2
  /\ IsSep(s[4])
  /\ s[5].k = "num" /\ s[5].w >= 2
zfill(tok) == IF tok.w < 2 THEN Num(2, tok.v) ELSE tok
reformat_dob(dob) ==
  IF dob # NoDate /\ MatchesDobPattern(dob)
     /\ Cardinality({i \in 1..Len(dob) : IsSep(dob[i])}) = 2
  THEN LET last == SubSeq(dob, 5, Len(dob))
           year == IF Len(last) = 1 /\ last[1].w = 2
                   THEN <<Num(4, 2000 + last[1].v)>> ELSE last
       IN year \o <<Sep("-"), zfill(dob[1]), Sep("-"), zfill(dob[3])>>
  ELSE dob

\* The one call of a date normalization that a behaviour makes.
apply_date(fn, s, out) ==
  /\ date_fn = ""
  /\ date_fn' = fn
  /\ date_input' = s
  /\ date_output' = out
  /\ UNCHANGED <<DB_AVAILABLE, poll_vars, sup_vars, norm_vars, main_vars, watchers, errors,
                 extract_vars, api_vars, monitor_vars, scraper_vars,
                 click_vars, json_log, table, now>>

NormalizeDate == \E s \in DateStrings : apply_date("normalize_date", s, normalize_date(s))
ReformatDob == \E s \in DateStrings : apply_date("reformat_dob", s, reformat_dob(s))

NextDate ==
  \/ NormalizeDate
  \/ ReformatDob

SpecDate == Init /\ [][NextDate]_vars

\* ------------------------------------------------- normalize_patient_data
\* A value that is not a str: the int 7.
NonString == "<int 7>"
\* str(x)
Str(x) == IF x = NonString THEN "7" ELSE x

\* An exception raised while an expression is evaluated.
Exc == "<exception>"

\* str.split(): the words of a string.
Words(x) ==
  CASE x = "John Doe" -> <<"John", "Doe">>
    [] x = "Ann Lee"  -> <<"Ann", "Lee">>
    [] x = " "        -> << >>
    [] OTHER          -> <<x>>

\* a or b, where the evaluation of a may have raised and b is evaluated
\* only when a is falsy.
OrRaising(a, b) == IF a = Exc THEN Exc ELSE IF Truthy(a) THEN a ELSE b

\* (x.split()[0] if x else ''): AttributeError on a truthy value that is
\* not a str, IndexError on a string without a word.
FirstWord(x) ==
  IF ~Truthy(x) THEN ""
  ELSE IF x = NonString THEN Exc
  ELSE IF Words(x) = << >> THEN Exc
  ELSE Words(x)[1]

\* (' '.join(x.split()[1:]) if x else '')
OtherWords(x) ==
  IF ~Truthy(x) THEN ""
  ELSE IF x = NonString THEN Exc
  ELSE IF Len(Words(x)) = 2 THEN Words(x)[2]
  ELSE ""

\* The identifiers generated for the record number index + 1.
GeneratedId(prefix, index) ==
  CASE prefix = "exp" /\ index = 0  -> "exp-1"
    [] prefix = "solv" /\ index = 0 -> "solv-1"
    [] prefix = "exp"               -> "exp-n"
    [] OTHER                        -> "solv-n"

PatientIdOf_Generated(patient_data, index) == GeneratedId("exp", index)
PatientIdOf(patient_data, index) ==
  IF Truthy(patient_data.patientId) THEN patient_data.patientId
  ELSE GeneratedId("exp", index)

SolvIdOf(patient_data, index) ==
  IF Truthy(patient_data.solvId) THEN patient_data.solvId
  ELSE GeneratedId("solv", index)

LocationOf(patient_data, loc) ==
  IF Truthy(patient_data.locationId) THEN patient_data.locationId ELSE loc

FirstNameOf(patient_data) ==
  OrRaising(patient_data.firstName,
            OrRaising(FirstWord(patient_data.name),
                      FirstWord(patient_data.fullName)))

LastNameOf(patient_data) ==
  OrRaising(patient_data.lastName,
            OrRaising(OtherWords(patient_data.name),
                      OtherWords(patient_data.fullName)))

\* str(gender).upper() and the test of its first letter.
GenderOf(gender) ==
  CASE ~Truthy(gender)                 -> ""
    [] Str(gender) \in {"F", "female"} -> "F"
    [] Str(gender) \in {"M", "Male"}   -> "M"
    [] OTHER                           -> ""

RoomOf(room) == IF Truthy(room) THEN Str(room) ELSE ""

normalize_patient_data(patient_data, loc, index) ==
  LET first_name == FirstNameOf(patient_data)
      last_name  == LastNameOf(patient_data)
  IN IF first_name = Exc \/ last_name = Exc THEN Raises
     ELSE Returned(Normalized(Str(PatientIdOf(patient_data, index)),
                              Str(SolvIdOf(patient_data, index)),
                              Str(LocationOf(patient_data, loc)),
                              Str(first_name), Str(last_name),
                              reformat_dob(patient_data.dob),
                              GenderOf(patient_data.gender),
                              RoomOf(patient_data.room)))

\* The mappings handed to the normalizer: raw ones, with any key absent,
\* and the records that are written with the canonical fields already.
IdChoices == {<<None, None, None>>, <<"", "", "">>, <<"p1", "s1", "L1">>}
DobChoices ==
  {NoDate, <<Txt>>,
   <<Num(4, 1990), Sep("-"), Num(2, 1), Sep("-"), Num(2, 15)>>,
   <<Num(2, 1), Sep("/"), Num(2, 15), Sep("/"), Num(4, 1990)>>,
   <<Num(1, 5), Sep("/"), Num(2, 1), Sep("/"), Num(2, 90)>>}
RawMappings ==
  {Mapping(Normalized(ids[1], ids[2], ids[3], first, last, dob, gender, room),
           name, fullName) :
     ids \in IdChoices, first \in {None, "", "John"}, last \in {None, "Doe"},
     dob \in DobChoices, gender \in {None, "F", "female", "Male", "x"},
     room \in {None, "12"},
     name \in {None, "", " ", "Cher", "John Doe", NonString},
     fullName \in {None, "Ann Lee"}}
CanonicalRecords ==
  {Normalized("p1", "s1", "L1", first, last, dob, gender, room) :
     first \in {"", "John"}, last \in {"", "Doe"},
     dob \in {NoDate, <<Num(4, 1990), Sep("-"), Num(2, 1), Sep("-"), Num(2, 15)>>},
     gender \in {"F", "M", ""}, room \in {"", "12"}}
Mappings == RawMappings \cup {Mapping(rec, None, None) : rec \in CanonicalRecords}

apply_normalize(patient_data) ==
  /\ norm_input' = patient_data
  /\ norm_output' = normalize_patient_data(patient_data, location_id, 0)
  /\ UNCHANGED <<DB_AVAILABLE, poll_vars, sup_vars, date_vars, main_vars, watchers, errors,
                 extract_vars, api_vars, monitor_vars, scraper_vars,
                 click_vars, json_log, table, now>>

\* The first call of a behaviour, on any mapping.
Normalize ==
  /\ norm_output = NotNormalized
  /\ \E patient_data \in Mappings : apply_normalize(patient_data)

\* A further call, on the record the last call returned.
NormalizeAgain ==
  /\ norm_output.outcome = "ok"
  /\ norm_input # Mapping(norm_output.value, None, None)
  /\ apply_normalize(Mapping(norm_output.value, None, None))

NextNormalize ==
  \/ Normalize
  \/ NormalizeAgain

SpecNormalize == Init /\ [][NextNormalize]_vars

\* =============================================================== scraper.py
\* A patient_data.json entry as save_to_patient_data_json builds it.
ScraperEntry(first, last, emr, stamp) ==
  [legalFirstName |-> first, legalLastName |-> last, mobilePhone |-> "",
   emr_id |-> emr, captured_at |-> stamp]

\* save_to_patient_data_json: append the entry for form data fd.
save_to_patient_data_json(lg, fd, emr, stamp) ==
  Append(lg, ScraperEntry(OrElse(fd.legalFirstName, fd.firstName),
                          OrElse(fd.legalLastName, fd.lastName), emr, stamp))

\* The entry update_emr_id_in_patient_data_json writes to for form data fd:
\* the most recent one without emr_id that has the form's names; 0 if none.
ScraperMergeTarget(lg, fd) ==
  LET form_first == Strip(OrElse(fd.legalFirstName, fd.firstName))
      form_last  == Strip(OrElse(fd.legalLastName, fd.lastName))
  IN LastIndex([k \in 1..Len(lg) |->
       /\ lg[k].emr_id = ""
       /\ IF form_first # "" /\ form_last # ""
            THEN /\ Lower(Strip(lg[k].legalFirstName)) = Lower(form_first)
                 /\ Lower(Strip(lg[k].legalLastName)) = Lower(form_last)
            ELSE IF form_first # ""
              THEN Lower(Strip(lg[k].legalFirstName)) = Lower(form_first)
              ELSE IF form_last # ""
                THEN Lower(Strip(lg[k].legalLastName)) = Lower(form_last)
                ELSE FALSE])

\* update_emr_id_in_patient_data_json: the log after the call.
update_emr_id_in_patient_data_json(lg, fd, emr) ==
  LET k == ScraperMergeTarget(lg, fd)
  IN IF k = 0 THEN lg ELSE [lg EXCEPT ![k] = [@ EXCEPT !.emr_id = emr]]

\* firstName and lastName of normalize_patient_data for an API patient.
NormalizedNames(p) ==
  [legalFirstName |-> OrElse(p.firstName, p.first_name),
   firstName      |-> None,
   first_name     |-> None,
   legalLastName  |-> OrElse(p.lastName, p.last_name),
   lastName       |-> None]

\* save_patient_record for a patient with an emr_id: the log after it.  It
\* merges by the patient's own names and appends a new entry when no entry
\* takes the identifier.
save_patient_record(lg, p, t) ==
  LET fd == NormalizedNames(p)
  IN IF ScraperMergeTarget(lg, fd) # 0
       THEN update_emr_id_in_patient_data_json(lg, fd, p.emr_id)
       ELSE save_to_patient_data_json(lg, fd, p.emr_id, <<t, Len(lg) + 1>>)

\* The API patient p as normalize_patient_data reads it.
PatientMapping(p) ==
  Mapping(Normalized(p.id, None, None, OrElse(p.firstName, p.first_name),
                     OrElse(p.lastName, p.last_name), NoDate, None, None),
          p.name, None)

\* save_patient_record calls normalize_patient_data before it writes
\* anything; an exception of the normalizer leaves save_patient_record.
SaveRaises(p, index) ==
  normalize_patient_data(PatientMapping(p), location_id, index) = Raises

\* `match` of the reconciliation loop for patient p and monitored item m at
\* time t; the rule that gave it, "" when there is no match.
ScraperMatchRule(p, m, t) ==
  LET fd == m.form_data
      wait_time == t - m.submission_time
  IN IF Truthy(fd.firstName) \/ Truthy(fd.first_name)
       THEN IF p.firstName = fd.firstName \/ p.first_name = fd.first_name
              THEN "name" ELSE ""
       ELSE IF wait_time >= emr_wait_min /\ wait_time <= emr_wait_max + 10
              THEN "window" ELSE ""

\* The state the scan of the main loop works on.
ScanState(mon, processed, lg, files, binds) ==
  [mon |-> mon, processed |-> processed, log |-> lg, files |-> files,
   binds |-> binds]

\* The first monitored item that patient p matches, 0 when there is none.
ScraperPick(st, p, t) ==
  IF Truthy(p.id) /\ Truthy(p.emr_id) /\ p.id \notin st.processed
    THEN FirstIndex([k \in 1..Len(st.mon) |->
                       ScraperMatchRule(p, st.mon[k], t) # ""])
    ELSE 0

\* One bind: merge into the log by the form's names, save_patient_record,
\* mark the patient as processed, delete the monitored item.
\* When save_patient_record raises, the merge by the form's names is on disk
\* and nothing else of the bind is done: the exception leaves the handling
\* of the response.
ScraperBind(st, p, k, t) ==
  LET m   == st.mon[k]
      lg1 == update_emr_id_in_patient_data_json(st.log, m.form_data, p.emr_id)
      lg2 == save_patient_record(lg1, p, t)
      raised == SaveRaises(p, Cardinality(st.processed))
      binds == Append(st.binds, [submission_id |-> m.submission_id,
                                 patient_id |-> p.id,
                                 rule |-> ScraperMatchRule(p, m, t),
                                 wait_time |-> t - m.submission_time,
                                 merged |-> lg1 # st.log,
                                 saved |-> ~raised])
  IN IF raised
       THEN ScanState(st.mon, st.processed, lg1, st.files, binds)
       ELSE ScanState(RemoveAt(st.mon, k),
                      st.processed \cup {p.id},
                      lg2,
                      st.files \cup {[patient_id |-> p.id, emrId |-> p.emr_id]},
                      binds)

\* The scan of one response: the patients in order up to the first bind.
\* Deleting the monitored item changes the dict under its iterator, the
\* RuntimeError ends the handling of this response.
ScanResponse(st, pl, t) ==
  LET j == FirstIndex([n \in 1..Len(pl) |-> ScraperPick(st, pl[n], t) # 0])
  IN IF j = 0 THEN st
     ELSE ScraperBind(st, pl[j], ScraperPick(st, pl[j], t), t)

\* The scan of api_responses[n..], in order.
RECURSIVE ScanFrom(_, _, _)
ScanFrom(st, n, t) ==
  IF n > Len(api_responses) THEN st
  ELSE ScanFrom(ScanResponse(st, api_responses[n], t), n + 1, t)

\* The scan of one pass of the main loop at time t.
Scan(t) ==
  ScanFrom(ScanState(monitoring_patients, processed_patient_ids, json_log,
                     patient_files, << >>), 1, t)

\* The timeout sweep: the items that stay.
Sweep(mon, t) ==
  LET keep == {k \in 1..Len(mon) : t - mon[k].submission_time < emr_wait_max}
      Pos(j) == CHOOSE k \in keep : Cardinality({i \in keep : i < k}) = j - 1
  IN [j \in 1..Cardinality(keep) |-> mon[Pos(j)]]

\* One pass of the main loop (scan, sweep) and its wait of d seconds.
scrape_main_loop(d) ==
  LET st == Scan(now)
  IN /\ d \in ClockSteps
     /\ d >= check_interval
     /\ now + d <= MaxTime
     /\ monitoring_patients' = Sweep(st.mon, now)
     /\ processed_patient_ids' = st.processed
     /\ json_log' = st.log
     /\ patient_files' = st.files
     /\ now' = now + d
     /\ UNCHANGED <<DB_AVAILABLE, aux_vars, click_vars, api_responses, form_submission_tracked, submission_count,
                    monitor_vars, table>>

\* monitor_add_patient_flow from the detection of a submitted form on.
monitor_add_patient_flow(fd) ==
  LET first_name == IF Truthy(fd.legalFirstName) THEN fd.legalFirstName
                    ELSE IF Truthy(fd.firstName) THEN fd.firstName
                    ELSE OrElse(fd.first_name, "")
      last_name  == IF Truthy(fd.legalLastName) THEN fd.legalLastName
                    ELSE OrElse(fd.lastName, "")
      submission_key ==
        IF first_name = "" /\ last_name = ""
          THEN <<"form", now, submission_count + 1>>
          ELSE <<first_name, last_name, now>>
      n == submission_count + 1
  IN /\ fd \in ScraperForms
     /\ submission_count < MaxSubs
     /\ submission_key \notin form_submission_tracked
     /\ form_submission_tracked' = form_submission_tracked \cup {submission_key}
     /\ submission_count' = n
     /\ json_log' = save_to_patient_data_json(json_log, fd, "", <<now, Len(json_log) + 1>>)
     /\ monitoring_patients' =
          Append(monitoring_patients,
                 [submission_id |-> n, form_data |-> fd, submission_time |-> now])
     /\ UNCHANGED <<DB_AVAILABLE, aux_vars, click_vars, processed_patient_ids, api_responses, patient_files, now,
                    monitor_vars, table>>

\* scraper.py handle_response: a response with patient data is recorded.
scraper_handle_response(pl) ==
  /\ pl \in ApiBodies
  /\ Len(api_responses) < MaxResponses
  /\ api_responses' = Append(api_responses, pl)
  /\ UNCHANGED <<DB_AVAILABLE, aux_vars, click_vars, monitoring_patients, processed_patient_ids,
                 form_submission_tracked, patient_files, submission_count,
                 json_log, table, now, monitor_vars>>

ScraperSubmit == \E fd \in ScraperForms : monitor_add_patient_flow(fd)
ScraperResponse == \E pl \in ApiBodies : scraper_handle_response(pl)
ScraperPass == \E d \in ClockSteps : scrape_main_loop(d)

NextScraper ==
  \/ ScraperSubmit
  \/ ScraperResponse
  \/ ScraperPass

SpecScraper == Init /\ [][NextScraper]_vars

\* ------------------------------------------- wait_for_emr_id, poll by poll
\* What one page.evaluate() of the wait task gives: an identifier, nothing
\* (null), or an exception.
PollOutcomes(pd) == WaitDomResults(pd) \cup {Exc}

\* The iterations the loop of wait_for_emr_id can make.
MaxPolls == max_wait_time \div poll_interval

\* elapsed_time after an iteration that did not return: the except clause
\* of the loop body falls through to the sleep and the increment, as the
\* iteration that found nothing does.
AfterPoll_ErrorSkipsSleep(elapsed, outcome) ==
  IF outcome = Exc THEN elapsed ELSE elapsed + poll_interval
AfterPoll(elapsed, outcome) == elapsed + poll_interval

\* One iteration of the loop of the wait task of submission i, up to the
\* test of the loop that follows it.  polls counts the iterations (it
\* stops counting one past MaxPolls).
wait_iteration(i, outcome) ==
  /\ i \in 1..Len(recs)
  /\ wait_pc[i] = "polling"
  /\ outcome \in PollOutcomes(recs[i])
  /\ polls[i] <= MaxPolls
  /\ polls' = [polls EXCEPT ![i] = @ + 1]
  /\ IF outcome \notin {"", Exc}
       THEN LET pd == [recs[i] EXCEPT !.emr_id = outcome]
            IN /\ recs' = [recs EXCEPT ![i] = pd]
               /\ json_log' = update_patient_emr_id(json_log, pd)
               /\ table' = MergeDb(table, json_log, pd)
               /\ wait_pc' = [wait_pc EXCEPT ![i] = "found"]
               /\ elapsed_time' = elapsed_time
       ELSE /\ elapsed_time' =
                 [elapsed_time EXCEPT ![i] = AfterPoll(@, outcome)]
            /\ wait_pc' = [wait_pc EXCEPT ![i] =
                             IF AfterPoll(elapsed_time[i], outcome) < max_wait_time
                               THEN "polling" ELSE "timeout"]
            /\ UNCHANGED <<recs, json_log, table>>
  /\ UNCHANGED <<DB_AVAILABLE, watchers, errors, extract_vars, api_vars,
                 norm_vars, date_vars, main_vars, sup_vars, click_vars,
                 pending_patients, dom_pc, dom_cur, dom_todo, now,
                 scraper_vars>>

WaitIteration(i) == \E outcome \in EmrIds \cup {"", Exc} : wait_iteration(i, outcome)

\* A submission of a session of at most MaxWaiters submissions.
SubmitWaited == Len(recs) < MaxWaiters /\ Submit

\* The wait tasks of the submissions, one iteration at a time.
NextWait ==
  \/ SubmitWaited
  \/ \E i \in 1..MaxSubs : WaitIteration(i)

SpecWait == Init /\ [][NextWait]_vars

\* The event loop resumes a wait task when its page.evaluate() or its sleep
\* is over.
SpecWaitFair == SpecWait /\ \A i \in 1..MaxSubs : WF_vars(WaitIteration(i))

\* ---------------------------------------------------------------- main
\* main of monitor_patient_form.py under asyncio.run.  main_pc names the
\* await the main task is suspended at; "finally" is `await
\* browser.close()`, "aexit" the exit of `async with async_playwright()`,
\* "returned" the end of the main task, "cleanup" asyncio.run waiting for
\* the tasks it cancelled, "ended" the end of the process.
InTry == {"goto", "goto_retry", "sleep", "setup", "monitor"}
BeforeTry == {"new_context", "new_page"}

main_step(from, to) ==
  /\ main_pc = from
  /\ main_pc' = to
  /\ UNCHANGED <<browser, loops, cancelling, exit_cause, interrupts>>

rest_unchanged ==
  UNCHANGED <<DB_AVAILABLE, poll_vars, sup_vars, norm_vars, date_vars, watchers, errors,
              extract_vars, api_vars, monitor_vars, scraper_vars, click_vars,
              json_log, table, now>>

\* browser = await p.chromium.launch(headless=False)
launch ==
  /\ main_pc = "launch"
  /\ main_pc' = "new_context"
  /\ browser' = "open"
  /\ UNCHANGED <<loops, cancelling, exit_cause, interrupts>>
  /\ rest_unchanged

new_context == main_step("new_context", "new_page") /\ rest_unchanged
new_page == main_step("new_page", "goto") /\ rest_unchanged

\* page.goto: the page loads, or the first attempt times out and a second
\* one is made; after a second timeout main goes on all the same.
goto ==
  /\ \E from \in {"goto", "goto_retry"} : main_step(from, "sleep")
  /\ rest_unchanged
goto_timeout == main_step("goto", "goto_retry") /\ rest_unchanged

\* await asyncio.sleep(3)
init_sleep == main_step("sleep", "setup") /\ rest_unchanged

\* await setup_form_monitor(..): it starts the two polling loops.
setup ==
  /\ main_pc = "setup"
  /\ main_pc' = "monitor"
  /\ loops' = Started(loops, {"monitor_form_submissions", "actively_check_dom_for_emr"})
  /\ UNCHANGED <<browser, cancelling, exit_cause, interrupts>>
  /\ rest_unchanged

\* While main sleeps in its loop a submission starts a wait task, and a
\* wait task ends after its last poll.
submission ==
  /\ main_pc = "monitor"
  /\ \E l \in WaitTasks :
       /\ loops[l] = "idle"
       /\ loops' = Started(loops, {l})
  /\ UNCHANGED <<main_pc, browser, cancelling, exit_cause, interrupts>>
  /\ rest_unchanged

wait_task_ends ==
  /\ \E l \in WaitTasks :
       /\ loops[l] = "running"
       /\ loops' = Done(loops, l)
       /\ cancelling' = cancelling \ {l}
  /\ UNCHANGED <<main_pc, browser, exit_cause, interrupts>>
  /\ rest_unchanged

\* An exception other than a navigation timeout.  Inside the try block
\* `except Exception` prints it and the finally clause follows; before the
\* try block it leaves the `async with` body at once.  setup_form_monitor
\* may have started its first loop already when it fails.
error ==
  /\ main_pc \in (InTry \ {"monitor"}) \cup BeforeTry
  /\ main_pc' = IF main_pc \in InTry THEN "finally" ELSE "aexit"
  /\ exit_cause' = "error"
  /\ \E started \in {{}, {"monitor_form_submissions"}} :
       loops' = IF main_pc = "setup" THEN Started(loops, started) ELSE loops
  /\ UNCHANGED <<browser, cancelling, interrupts>>
  /\ rest_unchanged

\* An interrupt signal: the main task gets CancelledError (or
\* KeyboardInterrupt) at its await; neither is an Exception, so inside the
\* try block only the finally clause runs.  With all = TRUE the loop had
\* stopped on the signal and asyncio.run cancels every task at once.
interrupt(all) ==
  /\ interrupts < MaxInterrupts
  /\ main_pc \in InTry \cup BeforeTry \cup {"finally"}
  /\ interrupts' = interrupts + 1
  /\ exit_cause' = "interrupt"
  /\ main_pc' = IF main_pc \in InTry THEN "finally" ELSE "aexit"
  /\ cancelling' = IF all THEN Running(loops) ELSE cancelling
  /\ UNCHANGED <<browser, loops>>
  /\ rest_unchanged

\* finally: await browser.close()
finally_close ==
  /\ main_pc = "finally"
  /\ main_pc' = "aexit"
  /\ browser' = "closed"
  /\ UNCHANGED <<loops, cancelling, exit_cause, interrupts>>
  /\ rest_unchanged

\* The exit of `async with async_playwright()`: the driver is stopped, and
\* with it a browser it still has open.
aexit ==
  /\ main_pc = "aexit"
  /\ main_pc' = "returned"
  /\ browser' = "closed"
  /\ UNCHANGED <<loops, cancelling, exit_cause, interrupts>>
  /\ rest_unchanged

\* asyncio.run(main()): when the main task has ended it cancels the tasks
\* that are left and runs the loop until they have ended.
cancel_all_tasks ==
  /\ main_pc = "returned"
  /\ main_pc' = "cleanup"
  /\ cancelling' = Running(loops)
  /\ UNCHANGED <<browser, loops, exit_cause, interrupts>>
  /\ rest_unchanged

\* A cancelled task gets CancelledError at its await.  The `except
\* Exception` clauses of the loops do not catch it: the task ends.
task_cancelled_Swallowed(l) ==
  /\ l \in cancelling
  /\ cancelling' = cancelling \ {l}
  /\ UNCHANGED <<main_pc, browser, loops, exit_cause, interrupts>>
  /\ rest_unchanged
task_cancelled(l) ==
  /\ l \in cancelling
  /\ cancelling' = cancelling \ {l}
  /\ loops' = Done(loops, l)
  /\ UNCHANGED <<main_pc, browser, exit_cause, interrupts>>
  /\ rest_unchanged

process_end ==
  /\ main_pc = "cleanup"
  /\ Running(loops) = {}
  /\ main_pc' = "ended"
  /\ UNCHANGED <<browser, loops, cancelling, exit_cause, interrupts>>
  /\ rest_unchanged

Interrupt == \E all \in BOOLEAN : interrupt(all)
TaskCancelled == \E l \in Tasks : task_cancelled(l)

NextMain ==
  \/ launch
  \/ new_context
  \/ new_page
  \/ goto
  \/ goto_timeout
  \/ init_sleep
  \/ setup
  \/ submission
  \/ wait_task_ends
  \/ error
  \/ Interrupt
  \/ finally_close
  \/ aexit
  \/ cancel_all_tasks
  \/ TaskCancelled
  \/ process_end

SpecMain == Init /\ [][NextMain]_vars

\* The event loop runs every task that is ready: the close of the browser
\* returns, the context manager exits, the cancelled tasks are resumed and
\* asyncio.run returns when they have ended.
SpecMainFair ==
  /\ SpecMain
  /\ WF_vars(finally_close)
  /\ WF_vars(aexit)
  /\ WF_vars(cancel_all_tasks)
  /\ WF_vars(TaskCancelled)
  /\ WF_vars(process_end)

\* --------------------------------------------------------------- run_all.py
\* main of the supervisor from the registration of signal_handler on.
\* sup_pc: "config" the reading of the environment, "start_api" and
\* "start_monitor" the calls of subprocess.Popen, "assign_api" and
\* "assign_monitor" the stores of their results (the child exists, the
\* variable is still None), "wait_api" wait_for_api, "sleep" the sleep that
\* replaces it, "watch" the loop over poll(), "exited" the end of the
\* supervisor.  A child is "none", "running", "terminating" (SIGTERM was
\* sent to it) or "dead".  The Python handler of a signal runs between two
\* bytecodes of the main thread, inside the calls main makes included.
sup_rest_unchanged ==
  UNCHANGED <<DB_AVAILABLE, poll_vars, norm_vars, date_vars, main_vars,
              watchers, errors, extract_vars, api_vars, monitor_vars,
              scraper_vars, click_vars, json_log, table, now>>

\* Popen.terminate(): SIGTERM to a child that has not ended.
Terminate(child) == IF child = "running" THEN "terminating" ELSE child

\* terminate(), wait(timeout=5), kill() when the wait timed out.
Stop(child) == IF child \in {"running", "terminating"} THEN "dead" ELSE child

\* main runs (no handler is running, the supervisor has not exited) at pc.
MainAt(pc) == sup_pc = pc /\ handler_pc = "none"

sup_step(to) ==
  /\ sup_pc' = to
  /\ UNCHANGED <<handler_pc, signals, sup_exit>>

\* sys.exit(code) of main after the cause `why`.
sup_exits(why) ==
  /\ sup_pc' = "exited"
  /\ sup_exit' = why
  /\ UNCHANGED <<handler_pc, signals>>

\* wait_for_api_ready = os.getenv('WAIT_FOR_API', 'true').lower() == 'true'
\* and the registration of the handler.
configure(w) ==
  /\ MainAt("config")
  /\ wait_for_api_ready' = w
  /\ sup_step("start_api")
  /\ UNCHANGED <<api_process, monitor_process, api_child, monitor_child,
                 api_listening, api_accepted, probes>>
  /\ sup_rest_unchanged

\* subprocess.Popen(api_cmd, ...): the child is created.
spawn_api ==
  /\ MainAt("start_api")
  /\ api_child' = "running"
  /\ sup_step("assign_api")
  /\ UNCHANGED <<wait_for_api_ready, api_process, monitor_process,
                 monitor_child, api_listening, api_accepted, probes>>
  /\ sup_rest_unchanged

\* api_process = <the Popen object>, then the branch on wait_for_api_ready.
assign_api ==
  /\ MainAt("assign_api")
  /\ api_process' = TRUE
  /\ sup_step(IF wait_for_api_ready THEN "wait_api" ELSE "sleep")
  /\ UNCHANGED <<wait_for_api_ready, monitor_process, api_child,
                 monitor_child, api_listening, api_accepted, probes>>
  /\ sup_rest_unchanged

\* wait_for_api: connect_ex gave an error, sleep(0.5).
probe_refused ==
  /\ MainAt("wait_api")
  /\ ~api_listening
  /\ probes < MaxProbes
  /\ probes' = probes + 1
  /\ sup_step("wait_api")
  /\ UNCHANGED <<wait_for_api_ready, api_process, monitor_process, api_child,
                 monitor_child, api_listening, api_accepted>>
  /\ sup_rest_unchanged

\* wait_for_api: connect_ex gave 0, sleep(1), return True.
probe_connected ==
  /\ MainAt("wait_api")
  /\ api_listening
  /\ api_accepted' = TRUE
  /\ sup_step("start_monitor")
  /\ UNCHANGED <<wait_for_api_ready, api_process, monitor_process, api_child,
                 monitor_child, api_listening, probes>>
  /\ sup_rest_unchanged

\* wait_for_api: the time is up, return False; main terminates the API
\* server and exits.
wait_for_api_timeout ==
  /\ MainAt("wait_api")
  /\ probes = MaxProbes
  /\ api_child' = Terminate(api_child)
  /\ sup_exits("api_timeout")
  /\ UNCHANGED <<wait_for_api_ready, api_process, monitor_process,
                 monitor_child, api_listening, api_accepted, probes>>
  /\ sup_rest_unchanged

\* time.sleep(3) when WAIT_FOR_API is not 'true'.
sleep_for_api ==
  /\ MainAt("sleep")
  /\ sup_step("start_monitor")
  /\ UNCHANGED <<wait_for_api_ready, api_process, monitor_process, api_child,
                 monitor_child, api_listening, api_accepted, probes>>
  /\ sup_rest_unchanged

\* subprocess.Popen(monitor_cmd, ...): the child is created.
spawn_monitor ==
  /\ MainAt("start_monitor")
  /\ monitor_child' = "running"
  /\ sup_step("assign_monitor")
  /\ UNCHANGED <<wait_for_api_ready, api_process, monitor_process, api_child,
                 api_listening, api_accepted, probes>>
  /\ sup_rest_unchanged

\* monitor_process = <the Popen object>
assign_monitor ==
  /\ MainAt("assign_monitor")
  /\ monitor_process' = TRUE
  /\ sup_step("watch")
  /\ UNCHANGED <<wait_for_api_ready, api_process, api_child, monitor_child,
                 api_listening, api_accepted, probes>>
  /\ sup_rest_unchanged

\* The loop: api_process.poll() is not None.
watch_api_died ==
  /\ MainAt("watch")
  /\ api_child = "dead"
  /\ monitor_child' = Terminate(monitor_child)
  /\ sup_exits("api_died")
  /\ UNCHANGED <<wait_for_api_ready, api_process, monitor_process, api_child,
                 api_listening, api_accepted, probes>>
  /\ sup_rest_unchanged

\* The loop: monitor_process.poll() is not None.
watch_monitor_died ==
  /\ MainAt("watch")
  /\ api_child # "dead"
  /\ monitor_child = "dead"
  /\ api_child' = Terminate(api_child)
  /\ sup_exits("monitor_died")
  /\ UNCHANGED <<wait_for_api_ready, api_process, monitor_process,
                 monitor_child, api_listening, api_accepted, probes>>
  /\ sup_rest_unchanged

\* SIGINT or SIGTERM is delivered: signal_handler starts, also while an
\* earlier call of it is running.
deliver_signal ==
  /\ sup_pc \notin {"config", "exited"}
  /\ signals < MaxInterrupts
  /\ signals' = signals + 1
  /\ handler_pc' = "monitor"
  /\ UNCHANGED <<sup_pc, sup_exit, wait_for_api_ready, api_process,
                 monitor_process, api_child, monitor_child, api_listening,
                 api_accepted, probes>>
  /\ sup_rest_unchanged

\* signal_handler: `if monitor_process:` and its block.
handler_stop_monitor ==
  /\ handler_pc = "monitor"
  /\ monitor_child' = IF monitor_process THEN Stop(monitor_child)
                      ELSE monitor_child
  /\ handler_pc' = "api"
  /\ UNCHANGED <<sup_pc, sup_exit, signals, wait_for_api_ready, api_process,
                 monitor_process, api_child, api_listening, api_accepted,
                 probes>>
  /\ sup_rest_unchanged

\* signal_handler: `if api_process:` and its block, sys.exit(0).
handler_stop_api ==
  /\ handler_pc = "api"
  /\ api_child' = IF api_process THEN Stop(api_child) ELSE api_child
  /\ api_listening' = (api_listening /\ ~api_process)
  /\ handler_pc' = "none"
  /\ sup_pc' = "exited"
  /\ sup_exit' = "signal"
  /\ UNCHANGED <<signals, wait_for_api_ready, api_process, monitor_process,
                 monitor_child, api_accepted, probes>>
  /\ sup_rest_unchanged

\* uvicorn has bound its port.
api_listens ==
  /\ api_child = "running"
  /\ ~api_listening
  /\ api_listening' = TRUE
  /\ UNCHANGED <<sup_pc, handler_pc, signals, sup_exit, wait_for_api_ready,
                 api_process, monitor_process, api_child, monitor_child,
                 api_accepted, probes>>
  /\ sup_rest_unchanged

\* The API server process ends, by itself or by the SIGTERM it got.
api_ends ==
  /\ api_child \in {"running", "terminating"}
  /\ api_child' = "dead"
  /\ api_listening' = FALSE
  /\ UNCHANGED <<sup_pc, handler_pc, signals, sup_exit, wait_for_api_ready,
                 api_process, monitor_process, monitor_child, api_accepted,
                 probes>>
  /\ sup_rest_unchanged

\* The monitor process ends, by itself or by the SIGTERM it got.
monitor_ends ==
  /\ monitor_child \in {"running", "terminating"}
  /\ monitor_child' = "dead"
  /\ UNCHANGED <<sup_pc, handler_pc, signals, sup_exit, wait_for_api_ready,
                 api_process, monitor_process, api_child, api_listening,
                 api_accepted, probes>>
  /\ sup_rest_unchanged

Configure == \E w \in BOOLEAN : configure(w)

NextSupervisor ==
  \/ Configure
  \/ spawn_api
  \/ assign_api
  \/ probe_refused
  \/ probe_connected
  \/ wait_for_api_timeout
  \/ sleep_for_api
  \/ spawn_monitor
  \/ assign_monitor
  \/ watch_api_died
  \/ watch_monitor_died
  \/ deliver_signal
  \/ handler_stop_monitor
  \/ handler_stop_api
  \/ api_listens
  \/ api_ends
  \/ monitor_ends

SpecSupervisor == Init /\ [][NextSupervisor]_vars

\* ------------------------------------------------------------------ claims
\* The log entry written for submission i by handle_patient_submission.
EntryOf(lg, i) ==
  FirstIndex([k \in 1..Len(lg) |-> lg[k].captured_at = recs[i].captured_at])

\* Case-insensitive equality of two names.
SameName(a, b) == Lower(Strip(a)) = Lower(Strip(b))

\* Dict pd has the first and the last name of candidate c.
ExactName(c, pd) ==
  /\ SameName(pd.legalFirstName, c.first_name)
  /\ SameName(pd.legalLastName, c.last_name)

\* The unbound pending records.
UnboundPending ==
  {i \in 1..Len(recs) : InList(pending_patients, i) /\ IsUnbound(i)}

\* C1: once the emr_id of a record is non-empty no step overwrites it with a
\* different value, and no step gives a second record an identifier that
\* another record already holds.
C1_NeverRebound ==
  [][ /\ \A i \in 1..Len(recs) :
           recs[i].emr_id # "" => recs'[i].emr_id = recs[i].emr_id
      /\ \A i, j \in 1..Len(recs) :
           (i # j /\ recs[i].emr_id # "" /\ recs'[j].emr_id = recs[i].emr_id)
             => recs[j].emr_id = recs[i].emr_id ]_vars

\* C2: a call of update_patient_emr_id for a record that already carries the
\* reported identifier (from wait_for_emr_id or from the DOM watcher) leaves
\* the JSON log as it is.
C2_IdempotentMerge ==
  [][ \A i \in 1..Len(recs), r \in EmrIds :
        ( /\ recs[i].emr_id = r
          /\ \/ wait_for_emr_id(i, r)
             \/ (dom_cur = i /\ dom_eval(r)) )
        => json_log' = json_log ]_vars

\* C3: when handle_response binds identifier X to record P, the log entry
\* written for P at submission time carries X afterwards and no entry of
\* another submission is changed.
C3_BindReachesOwnEntry ==
  [][ \A c \in Candidates :
        (handle_response(c) /\ MatchPick(c) # 0)
        => LET i == MatchPick(c)
               k == EntryOf(json_log, i)
           IN /\ k # 0
              /\ json_log'[k].emr_id = c.emr_id
              /\ \A m \in 1..Len(json_log) : m # k => json_log'[m] = json_log[m]
    ]_vars

\* C4: pending_patients holds no record with a non-empty emr_id.
C4_PendingIsUnbound ==
  \A k \in 1..Len(pending_patients) : recs[pending_patients[k]].emr_id = ""

\* The binds of the pass of the main loop of scraper.py taken at `now`.
PassBinds == {Scan(now).binds[k] : k \in 1..Len(Scan(now).binds)}

\* C5: a record that got no identifier within max-wait is out of the pending
\* set: in monitor_patient_form.py once its wait task has timed out, in
\* scraper.py after the pass that finds it max-wait old.
C5_TimedOutLeavesPending ==
  [][ /\ \A i \in 1..Len(recs) :
           (wait_pc'[i] = "timeout" /\ recs'[i].emr_id = "")
             => ~InList(pending_patients', i)
      /\ (\E d \in ClockSteps : scrape_main_loop(d))
           => \A k \in 1..Len(monitoring_patients') :
                now - monitoring_patients'[k].submission_time < emr_wait_max
    ]_vars

\* C6: a record that got no identifier within max-wait never gets one, and
\* the emr_id of its log entry stays empty: in monitor_patient_form.py from
\* the timeout of its wait task on, in scraper.py from max-wait after its
\* submission on.
C6_TimedOutStaysUnbound ==
  [][ /\ \A i \in 1..Len(recs) :
           (wait_pc[i] = "timeout" /\ recs[i].emr_id = "")
             => /\ recs'[i].emr_id = ""
                /\ json_log'[EntryOf(json_log, i)].emr_id = ""
      /\ (\E d \in ClockSteps : scrape_main_loop(d))
           => /\ \A b \in PassBinds : b.wait_time <= emr_wait_max
              /\ \A k \in 1..Len(json_log) :
                   ( /\ json_log[k].emr_id = ""
                     /\ now - json_log[k].captured_at[1] > emr_wait_max )
                   => json_log'[k].emr_id = ""
    ]_vars

\* C7: a bind by a fallback rule (singleton or most-recent in
\* monitor_patient_form.py, time window in scraper.py) happens no earlier
\* than the minimum wait after the submission of the record.
C7_FallbackAfterMinWait ==
  [][ /\ \A c \in Candidates :
           ( /\ handle_response(c)
             /\ MatchRule(c) \in {"singleton", "most_recent"} )
           => now - recs[MatchPick(c)].captured_at[1] >= emr_wait_min
      /\ (\E d \in ClockSteps : scrape_main_loop(d))
           => \A b \in PassBinds :
                b.rule = "window" => b.wait_time >= emr_wait_min
    ]_vars

\* C8: a candidate with both names, exactly one unbound pending record with
\* those names: the identifier goes to that record and to no other.
C8_ExactNameMatch ==
  [][ \A c \in Candidates, i \in 1..Len(recs) :
        ( /\ handle_response(c)
          /\ c.first_name # "" /\ c.last_name # ""
          /\ {j \in UnboundPending : ExactName(c, recs[j])} = {i} )
        => /\ recs'[i].emr_id = c.emr_id
           /\ \A j \in 1..Len(recs) : j # i => recs'[j] = recs[j] ]_vars

\* C9: with two or more unbound pending records, a record bound because its
\* phone matches has the candidate's first name or the candidate's last name.
C9_PhoneNeedsOwnName ==
  [][ \A c \in Candidates :
        ( /\ handle_response(c)
          /\ UnboundCount >= 2
          /\ MatchPick(c) # 0
          /\ MatchRule(c) = "phone" )
        => LET pd == recs[MatchPick(c)]
           IN \/ (c.first_name # "" /\ SameName(pd.legalFirstName, c.first_name))
              \/ (c.last_name # "" /\ SameName(pd.legalLastName, c.last_name))
    ]_vars

\* C10: two or more unbound pending records with the candidate's first and
\* last name and no phone to tell them apart: the identifier goes to the most
\* recently submitted unbound record.
C10_AmbiguousNameMostRecent ==
  [][ \A c \in Candidates :
        ( /\ handle_response(c)
          /\ c.first_name # "" /\ c.last_name # ""
          /\ Cardinality({j \in UnboundPending : ExactName(c, recs[j])}) >= 2
          /\ \A j \in UnboundPending : ~phone_match(c, recs[j]) )
        => LET i == MostRecentPick
           IN /\ recs'[i].emr_id = c.emr_id
              /\ \A j \in 1..Len(recs) : j # i => recs'[j] = recs[j] ]_vars

\* Candidate c matches no unbound pending record by name or by phone.
NoRuleMatches(c) ==
  \A j \in UnboundPending : ~name_match(c, recs[j]) /\ ~phone_match(c, recs[j])

\* C11: with two or more unbound pending records and a candidate that
\* matches none of them by name or phone, handle_response binds the
\* identifier to the most recently submitted unbound record and removes that
\* record from pending_patients.
C11_MostRecentFallback ==
  /\ [](\A c \in Candidates :
          (UnboundCount >= 2 /\ NoRuleMatches(c))
            => MatchPick(c) = MostRecentPick)
  /\ [][ \A c \in Candidates :
           (handle_response(c) /\ UnboundCount >= 2 /\ NoRuleMatches(c))
             => /\ recs'[MostRecentPick].emr_id = c.emr_id
                /\ ~InList(pending_patients', MostRecentPick) ]_vars

\* C12: with exactly one unbound pending record, handle_response binds every
\* candidate identifier to it, whatever the names of the candidate and of
\* the record.
C12_SingletonFallback ==
  /\ [](\A c \in Candidates :
          UnboundCount = 1 => MatchPick(c) \in UnboundPending)
  /\ [][ \A c \in Candidates, i \in 1..Len(recs) :
           (handle_response(c) /\ UnboundPending = {i})
             => /\ recs'[i].emr_id = c.emr_id
                /\ ~InList(pending_patients', i) ]_vars

\* C13: with no unbound record in pending_patients (the list is empty or all
\* its records have an emr_id) handle_response binds nothing for any
\* candidate and leaves the records, pending_patients, the JSON log and the
\* table as they are.
C13_NoPendingNoBinding ==
  /\ [](\A c \in Candidates : UnboundCount = 0 => MatchPick(c) = 0)
  /\ [][ \A c \in Candidates :
           (handle_response(c) /\ UnboundCount = 0)
             => UNCHANGED <<recs, pending_patients, json_log, table>> ]_vars

\* A response can arrive while pending_patients holds only bound records.
C13_Witness ==
  /\ Len(pending_patients) >= 1
  /\ UnboundCount = 0

\* C14: one click of the submit button is processed once: there are never
\* more pending records, nor more initial entries in the JSON log, than
\* clicks of the button, however many listeners the click reaches.
C14_OneRecordPerClick ==
  /\ Len(recs) <= clicks
  /\ Len(json_log) <= clicks

\* C15: an upsert never touches a stored identifier: a row of the table with
\* a non-null emr_id keeps that emr_id through every write of a record,
\* whatever emr_id the written record carries.
C15_UpsertKeepsStoredId ==
  [][ \A j \in 1..Len(table) :
        table[j].emr_id # None
          => /\ j <= Len(table')
             /\ table'[j].emr_id = table[j].emr_id ]_vars

\* C16: the table holds at most one row per submission: no two rows carry
\* the captured_at of the same submission, so the merge of an identifier
\* updates the row written at submission time.
C16_OneRowPerSubmission ==
  \A j, k \in 1..Len(table) :
    table[j].captured_at = table[k].captured_at => j = k

\* The entries of the log lg that have an identifier in lg2 and had none in lg.
Gained(lg, lg2) ==
  {k \in 1..Len(lg) : k <= Len(lg2) /\ lg[k].emr_id = "" /\ lg2[k].emr_id # ""}

\* C17: in scraper.py a pass of the reconciliation loop that binds one
\* identifier to a monitored submission leaves patient_data.json with the
\* same number of entries, exactly one of which has gained the identifier.
C17_BindMergesWithoutDuplicate ==
  [][ \A d \in ClockSteps :
        (scrape_main_loop(d) /\ Len(Scan(now).binds) = 1)
          => /\ Len(json_log') = Len(json_log)
             /\ Cardinality(Gained(json_log, json_log')) = 1 ]_vars

\* The entries of the log lg without an identifier.
Lacking(lg) == {k \in 1..Len(lg) : lg[k].emr_id = ""}

\* The entries of lg without an identifier that carry the names and the
\* captured_at of the dict pd.
Matching(lg, pd) ==
  {k \in Lacking(lg) : /\ lg[k].legalFirstName = pd.legalFirstName
                       /\ lg[k].legalLastName = pd.legalLastName
                       /\ lg[k].captured_at = pd.captured_at}

\* The positions at which the logs lg and lg2 differ.
Changed(lg, lg2) == {k \in 1..Len(lg) : k > Len(lg2) \/ lg2[k] # lg[k]}

\* The dicts a merge can be called with: a record of the session carrying
\* an identifier just found.
MergeDicts ==
  {[recs[i] EXCEPT !.emr_id = e] : i \in 1..Len(recs), e \in EmrIds}

\* The log lg with the emr_id of entry k set to that of pd, and nothing else.
SetAt(lg, k, pd) == [lg EXCEPT ![k] = [@ EXCEPT !.emr_id = pd.emr_id]]

\* C18: update_patient_emr_id sets the identifier on the entry with the
\* record's first name, last name and captured_at that lacks an identifier;
\* when no entry matches, on the most recent entry that lacks one; exactly
\* one entry changes, or none when every entry has an identifier.  Every
\* step that gives a record an identifier applies this merge to the log.
C18_StorageMerge ==
  /\ [](\A pd \in MergeDicts :
          LET lg2 == update_patient_emr_id(json_log, pd)
              m   == Matching(json_log, pd)
              l   == Lacking(json_log)
          IN IF m # {}
               THEN \E k \in m : lg2 = SetAt(json_log, k, pd)
                                  /\ Changed(json_log, lg2) = {k}
               ELSE IF l # {}
                 THEN \E k \in l : /\ \A j \in l : j <= k
                                    /\ lg2 = SetAt(json_log, k, pd)
                                    /\ Changed(json_log, lg2) = {k}
                 ELSE lg2 = json_log)
  /\ [][ \A i \in 1..Len(recs) :
           (Len(recs') = Len(recs) /\ recs'[i].emr_id # recs[i].emr_id)
             => json_log' = update_patient_emr_id(json_log, recs'[i]) ]_vars

\* The fallback has acted on the most recent of two entries without an
\* identifier: the second entry of the earlier sessions has one, the first
\* has none, and the record's own entry had its identifier before.
C18_Witness ==
  /\ Len(json_log) >= 3
  /\ json_log[1].emr_id = ""
  /\ json_log[2].emr_id # ""
  /\ json_log[2].captured_at[1] < 0
  /\ json_log[3].emr_id # ""

C20_LogNotBehindTable ==
  \A j \in 1..Len(table) :
    table[j].emr_id # None
      => \E k \in 1..Len(json_log) :
           /\ json_log[k].captured_at = table[j].captured_at
           /\ json_log[k].emr_id = table[j].emr_id

\* C21: mutations of the pending set are serialized: when the DOM watcher
\* binds the record it made its 'unbound' check for before the await of
\* page.evaluate(), that record is still unbound and still in
\* pending_patients, so that no record is bound twice and no removal is
\* attempted on a record that has left the list.
C21_SerializedPendingMutations ==
  [][ \A r \in EmrIds :
        dom_eval(r) => /\ IsUnbound(dom_cur)
                       /\ InList(pending_patients, dom_cur) ]_vars

RECURSIVE FirstHit(_)
RECURSIVE FirstHitFrom(_, _, _)
FirstHit(data) ==
  IF data.t \in {"dict", "list"} THEN FirstHitFrom(data.t, data.items, 1) ELSE ""

FirstHitFrom(t, items, n) ==
  IF n > Len(items) THEN ""
  ELSE LET value == IF t = "dict" THEN items[n].v ELSE items[n]
           own   == /\ t = "dict" /\ KeyHasEmr(items[n].k)
                    /\ value.t \in {"str", "int"} /\ JTruthy(value)
       IN IF own THEN value.s
          ELSE IF FirstHit(value) # "" THEN FirstHit(value)
          ELSE FirstHitFrom(t, items, n + 1)

\* C23: first hit wins: the recursive search of a body gives the first
\* identifier field in traversal order; later fields never replace it.
C23_FirstHitWins ==
  extracted # NotSearched
    => find_emr_id(response_body, "") = FirstHit(response_body)

\* C24: the search is complete: from every body that has an identifier
\* field at any depth of objects and lists (also under a top-level 'data'
\* list) an identifier is extracted and handed to the matcher.
C24_SearchComplete ==
  (extracted # NotSearched /\ FirstHit(response_body) # "")
    => extracted.outcome = "found"

\* The rows of the table whose emr_id is e.
RowsWith(e) == {j \in 1..Len(table) : table[j].emr_id = e}

\* C25: a lookup that reaches the database returns, among the rows whose
\* emr_id equals the requested value, the one with the latest created_at,
\* and answers 404 when there is none; a row without emr_id is returned by
\* no request.
C25_LookupLatest ==
  [][ \A e \in RequestIds :
        get_patient_by_emr_id(e, "none")
          => /\ (RowsWith(e) = {}) <=> (api_reply'.status = 404)
             /\ RowsWith(e) # {}
                  => /\ api_reply'.status = 200
                     /\ api_reply'.row \in RowsWith(e)
                     /\ \A k \in RowsWith(e) : k <= api_reply'.row
                     /\ table[api_reply'.row].emr_id # None ]_vars

\* A lookup has returned the later of two rows with the requested emr_id
\* while the table also held a row without emr_id.
C25_Witness ==
  /\ api_reply.status = 200
  /\ Cardinality(RowsWith(api_request)) >= 2
  /\ \E j \in 1..Len(table) : table[j].emr_id = None

\* C26: a failure to connect is answered with 503; a 404 or 503 raised in
\* the handler reaches the caller as such, never as 500; whatever the
\* outcome, the connection and the cursor that were opened are closed.
C26_LookupErrorMapping ==
  /\ [](api_open = {})
  /\ [][ \A e \in RequestIds :
           /\ get_patient_by_emr_id(e, "connect") => api_reply'.status = 503
           /\ (get_patient_by_emr_id(e, "none") /\ RowsWith(e) = {})
                => api_reply'.status = 404
           /\ (get_patient_by_emr_id(e, "cursor") \/ get_patient_by_emr_id(e, "execute"))
                => api_reply'.status = 500 ]_vars

\* A request has failed to connect and was answered with 503.
C26_Witness ==
  /\ api_reply.status = 503
  /\ Len(table) >= 1

\* A string of the form YYYY-MM-DD that names a day of the calendar.
ValidDate(x) ==
  /\ Len(x) = 5
  /\ strptime(x, formats[1]).ok
  /\ x = strftime(strptime(x, formats[1]))

\* What the ordered list of formats gives for a string: the date under the
\* first format that parses it, absent when none does.
FirstFormat(s) ==
  LET parsing == {i \in 1..Len(formats) : strptime(s, formats[i]).ok}
      first   == CHOOSE i \in parsing : \A j \in parsing : i <= j
  IN IF parsing = {} THEN NoDate ELSE strftime(strptime(s, formats[first]))

\* C29: whichever normalization a date string went through
\* (normalize_date of monitor_patient_form.py, the rewriting of the date of
\* birth in normalize_patient_data), the result is the YYYY-MM-DD form
\* under the first format of the ordered list that parses the string and
\* absent when none parses it, so it is absent or a valid calendar date:
\* '01/15/1990' gives '1990-01-15', '1990-15-01' gives absent.
C29_DateNormalization ==
  date_fn # "" =>
    /\ date_output = FirstFormat(StripDate(date_input))
    /\ date_output = NoDate \/ ValidDate(date_output)
    /\ date_input = <<Num(2, 1), Sep("/"), Num(2, 15), Sep("/"), Num(4, 1990)>>
         => date_output = <<Num(4, 1990), Sep("-"), Num(2, 1), Sep("-"), Num(2, 15)>>
    /\ date_input = <<Num(4, 1990), Sep("-"), Num(2, 15), Sep("-"), Num(2, 1)>>
         => date_output = NoDate

\* normalize_date of monitor_patient_form.py, taken alone, gives what the
\* ordered list of formats gives.
NormalizeDateConforms ==
  date_fn = "normalize_date" =>
    /\ date_output = FirstFormat(StripDate(date_input))
    /\ date_output = NoDate \/ ValidDate(date_output)

\* The mapping has a name key: one of those of the model, or the keys of
\* the first and the last name.
HasNameField(patient_data) ==
  \E v \in {patient_data.firstName, patient_data.lastName, patient_data.name,
            patient_data.fullName} : v # None

\* C27: normalize_patient_data never raises: for every mapping it returns
\* the eight fields as strings, and the first and the last name are empty
\* strings when the mapping has no name field.
C27_NormalizerNeverRaises ==
  norm_output # NotNormalized =>
    /\ norm_output.outcome = "ok"
    /\ ~HasNameField(norm_input) =>
         norm_output.value.firstName = "" /\ norm_output.value.lastName = ""

\* A record written with the canonical fields: the identifiers, the names
\* and the room as strings, the date of birth empty or as YYYY-MM-DD, the
\* gender 'F', 'M' or ''.
IsCanonical(patient_data) ==
  /\ patient_data.name = None /\ patient_data.fullName = None
  /\ \A v \in {patient_data.patientId, patient_data.solvId,
               patient_data.locationId} : Truthy(v) /\ v # NonString
  /\ \A v \in {patient_data.firstName, patient_data.lastName,
               patient_data.room} : v # None /\ v # NonString
  /\ patient_data.dob = NoDate \/ ValidDate(patient_data.dob)
  /\ patient_data.gender \in {"F", "M", ""}

\* The eight canonical fields of a mapping.
RecordOf(patient_data) ==
  Normalized(patient_data.patientId, patient_data.solvId,
             patient_data.locationId, patient_data.firstName,
             patient_data.lastName, patient_data.dob, patient_data.gender,
             patient_data.room)

Rebound == {i \in 1..Len(recs) : recs'[i].emr_id # recs[i].emr_id}

\* C31: the handling of one network response sets emr_id on at most one
\* dict of pending_patients and removes at most one dict from the list, and
\* the dict it removes is the one it bound.
C31_OneBindPerResponse ==
  [][Response =>
       /\ Cardinality(Rebound) <= 1
       /\ Len(pending_patients') >= Len(pending_patients) - 1
       /\ \A i \in Rebound : InList(pending_patients, i) /\ ~InList(pending_patients', i)
       /\ Rebound = {} => pending_patients' = pending_patients]_vars

\* A response was bound to one of two pending dicts while the other, bound
\* by its wait task, was in the list as well.
C31_Witness ==
  /\ Len(recs) = 2
  /\ recs[1].emr_id = "91"
  /\ recs[2].emr_id = "92"
  /\ Len(pending_patients) = 1
  /\ wait_pc[2] = "polling"

\* C32: no two submissions carry the same non-empty emr_id, neither in
\* their dicts nor in their entries of the JSON log, also after an
\* identifier was observed a second time.
C32_IdentifierAssignedOnce ==
  /\ \A i, j \in 1..Len(recs) :
       (i # j /\ recs[i].emr_id # "") => recs[i].emr_id # recs[j].emr_id
  /\ \A a, b \in 1..Len(json_log) :
       (a # b /\ json_log[a].emr_id # "") => json_log[a].emr_id # json_log[b].emr_id

C34_NoLostUpdate ==
  [][ /\ Len(json_log') >= Len(json_log)
      /\ \A a \in 1..Len(json_log) :
           /\ json_log'[a].captured_at = json_log[a].captured_at
           /\ json_log'[a].legalFirstName = json_log[a].legalFirstName
           /\ json_log'[a].legalLastName = json_log[a].legalLastName
           /\ json_log[a].emr_id # "" => json_log'[a].emr_id = json_log[a].emr_id
    ]_vars

\* Both entries carry the identifier merged into them, the second one
\* merged first, and the DOM watcher is in the middle of a pass.
C34_Witness ==
  /\ Len(json_log) = 2
  /\ json_log[1].emr_id = "92"
  /\ json_log[2].emr_id = "91"
  /\ recs[1].emr_id = "92" /\ recs[2].emr_id = "91"
  /\ dom_pc = "eval"


\* The monitored item of submission n and the API patient with id pid.
MonitoredItem(n) ==
  CHOOSE m \in {monitoring_patients[k] : k \in 1..Len(monitoring_patients)} :
    m.submission_id = n
PatientOf(pid) == CHOOSE p \in ApiPatients : p.id = pid

\* The first name a form or a patient object carries under firstName or
\* first_name, "" when it carries none.
GivenFirstName(d) == OrElse(d.firstName, d.first_name)

\* C35: in scraper.py's reconciliation loop a monitored submission whose form
\* data carries a first name (firstName or first_name) is bound only to a
\* patient whose first name equals it; a patient with another or no first
\* name is not bound to it.
C35_FirstNameGuardsBind ==
  [][ ScraperPass
        => \A b \in PassBinds :
             LET fd == MonitoredItem(b.submission_id).form_data
             IN GivenFirstName(fd) # ""
                  => GivenFirstName(PatientOf(b.patient_id)) = GivenFirstName(fd)
    ]_vars


\* The binds of the pass at `now` that wrote something: the merge into the
\* log by the form's names, or the record save_patient_record saves.
EffectiveBinds ==
  {k \in 1..Len(Scan(now).binds) :
     Scan(now).binds[k].merged \/ Scan(now).binds[k].saved}

\* The submissions that the list mon monitors.
MonitoredIds(mon) == {mon[k].submission_id : k \in 1..Len(mon)}

\* C36: in scraper.py's reconciliation loop a patient id is bound to at most
\* one monitored submission and a submission is bound at most once: a bind
\* takes a patient id that is not in processed_patient_ids, after the pass
\* the id is in the set (which never loses an id) and the submission is no
\* longer monitored, and no pass binds a patient or a submission twice.
C36_BoundAtMostOnce ==
  [][ /\ processed_patient_ids \subseteq processed_patient_ids'
      /\ ScraperPass
           => LET binds == Scan(now).binds
              IN /\ \A k \in EffectiveBinds :
                      /\ binds[k].patient_id \notin processed_patient_ids
                      /\ binds[k].patient_id \in processed_patient_ids'
                      /\ binds[k].submission_id
                           \notin MonitoredIds(monitoring_patients')
                 /\ \A j, k \in EffectiveBinds :
                      ( \/ binds[j].patient_id = binds[k].patient_id
                        \/ binds[j].submission_id = binds[k].submission_id )
                      => j = k
    ]_vars


\* C37: each wait task ends: wait_for_emr_id returns with the iteration
\* whose poll finds an identifier, it never makes more than max_wait_time /
\* poll_interval = 40 iterations, whatever the polls give (nothing or an
\* error), after 40 iterations without an identifier it has returned, and
\* a task that is polling eventually is not.
C37_WaitTerminates ==
  /\ [](\A i \in 1..Len(recs) :
          /\ polls[i] <= MaxPolls
          /\ wait_pc[i] = "polling" => polls[i] < MaxPolls
          /\ wait_pc[i] = "timeout" => polls[i] = MaxPolls)
  /\ [][\A i \in 1..Len(recs), r \in EmrIds :
          wait_iteration(i, r) => wait_pc'[i] = "found"]_vars
  /\ \A i \in 1..MaxSubs :
       (i <= Len(wait_pc) /\ wait_pc[i] = "polling")
         ~> (i <= Len(wait_pc) /\ wait_pc[i] # "polling")

\* A task has returned after 40 polls that gave no identifier.
C37_Witness ==
  /\ Len(recs) >= 1
  /\ wait_pc[1] = "timeout"
  /\ polls[1] = MaxPolls
  /\ elapsed_time[1] = max_wait_time
  /\ recs[1].emr_id = ""


\* C38: the supervisor never leaves one service running alone: the monitor
\* process is created only when the API server process has been created and,
\* with WAIT_FOR_API true, wait_for_api got a connection; when wait_for_api
\* gives up, the API server is terminated and there is no monitor process;
\* and when the supervisor has exited (a child ended, or SIGINT/SIGTERM), no
\* child is still running without having been terminated.
C38_NeverAlone ==
  /\ [][(monitor_child = "none" /\ monitor_child' # "none")
          => /\ api_child # "none"
             /\ wait_for_api_ready => api_accepted]_vars
  /\ [](sup_exit = "api_timeout"
          => monitor_child = "none" /\ api_child # "running")
  /\ [](sup_pc = "exited"
          => api_child # "running" /\ monitor_child # "running")

====
